---- MODULE Spec2Model ----
(***************************************************************************)
(* The GGLang tree-walking interpreter (src/gglang/interpreter.py) as a    *)
(* state machine.  One interpreter runs one program.  The Python call      *)
(* stack of the recursive visitor is the variable "stack": one frame per   *)
(* suspended handler, holding that handler's locals and its position.      *)
(* "ctrl" says what the running handler does next: execute a node, hand a  *)
(* value to the frame below, or unwind with a Python exception.            *)
(***************************************************************************)
EXTENDS Integers, Sequences, FiniteSets

VARIABLES
    input,        \* the program given to the interpreter (a descriptor)
    environment,  \* Interpreter.environment: index into envs
    envs,         \* every Environment object created so far
    stack,        \* the Python call stack of the visitor
    ctrl,         \* what happens next: exec / ret / raise / done / crash
    instances,    \* every GGLangInstance created so far
    lists,        \* every Python list created so far
    out           \* standard output: one entry per print call

vars == <<input, environment, envs, stack, ctrl, instances, lists, out>>

----------------------------------------------------------------------------
(* Bounds of the model *)

MaxX == 3
MaxN == 3
MaxLen == 2
MaxStack == 24

----------------------------------------------------------------------------
(* Runtime values.  The field t is the Python type name.  A str holds its  *)
(* text as a sequence of pieces (characters, or whole message fragments);  *)
(* a float holds its value in tenths.                                      *)

IntV(n) == [t |-> "int", v |-> n]
BoolV(b) == [t |-> "bool", v |-> b]
FloatV(tenths) == [t |-> "float", v |-> tenths]
StrV(s) == [t |-> "str", v |-> s]
ListV(r) == [t |-> "list", ref |-> r]
None == [t |-> "NoneType"]
UNINITIALIZED == [t |-> "object"]
NativeV(name) == [t |-> "builtin", name |-> name]
GGLangFunction(declaration, closure) ==
    [t |-> "GGLangFunction", declaration |-> declaration, closure |-> closure]
GGLangClass(name, superclass, methods) ==
    [t |-> "GGLangClass", name |-> name, superclass |-> superclass, methods |-> methods]
GGLangInstance(r) == [t |-> "GGLangInstance", ref |-> r]
GGLangSuper(instance, superclass) ==
    [t |-> "GGLangSuper", instance |-> instance, superclass |-> superclass]

(* A Python exception object: its class, str(e) and, for ReturnValue, the   *)
(* carried value.                                                           *)
Exception(type, msg) == [type |-> type, msg |-> msg, value |-> None]
ReturnValue(value) == [type |-> "ReturnValue", msg |-> <<>>, value |-> value]

Ok(v) == [ok |-> TRUE, val |-> v]
Err(type, msg) == [ok |-> FALSE, exc |-> Exception(type, msg)]

EmptyMap == [n \in {} |-> None]
Put(m, k, v) == [n \in (DOMAIN m) \cup {k} |-> IF n = k THEN v ELSE m[n]]

----------------------------------------------------------------------------
(* Environment *)

Environment(enclosing) == [values |-> EmptyMap, enclosing |-> enclosing]

define(es, e, name, value) == [es EXCEPT ![e].values = Put(@, name, value)]

(* The nearest frame of the chain starting at e that binds name; 0: none.   *)
RECURSIVE Holder(_, _, _)
Holder(es, e, name) ==
    IF e = 0 THEN 0
    ELSE IF name \in DOMAIN es[e].values THEN e
    ELSE Holder(es, es[e].enclosing, name)

get(es, e, name) ==
    LET h == Holder(es, e, name) IN
    IF h = 0 THEN Err("NameError", <<"Variable '", name, "' is not defined.">>)
    ELSE IF es[h].values[name] = UNINITIALIZED
         THEN Err("NameError",
                  <<"Variable '", name, "' was declared but not assigned a value.">>)
         ELSE Ok(es[h].values[name])

(* An assignment that binds the name in the frame e itself.                 *)
AssignInCurrentFrame(es, e, name, value) ==
    [ok |-> TRUE, envs |-> define(es, e, name, value), exc |-> None]

(* assign: ok with the new environments, or NameError.                      *)
assign(es, e, name, value) ==
    LET h == Holder(es, e, name) IN
    IF h = 0
    THEN [ok |-> FALSE, envs |-> es,
          exc |-> Exception("NameError",
                            <<"Cannot assign to undefined variable '", name, "'.">>)]
    ELSE [ok |-> TRUE, envs |-> define(es, h, name, value), exc |-> None]

----------------------------------------------------------------------------
(* Python's built-in conversions and operators, on the values above.        *)

DigitChars == <<"0", "1", "2", "3", "4", "5", "6", "7", "8", "9">>
DigitSet == {DigitChars[i] : i \in 1..10}
DigitOf(c) == (CHOOSE i \in 1..10 : DigitChars[i] = c) - 1

RECURSIVE NatStr(_)
NatStr(n) ==
    IF n < 10 THEN <<DigitChars[n + 1]>>
    ELSE NatStr(n \div 10) \o <<DigitChars[(n % 10) + 1]>>

IntStr(n) == IF n < 0 THEN <<"-">> \o NatStr(-n) ELSE NatStr(n)

IsDigits(s) == Len(s) > 0 /\ \A i \in 1..Len(s) : s[i] \in DigitSet

RECURSIVE NatOf(_)
NatOf(s) ==
    IF Len(s) = 0 THEN 0
    ELSE NatOf(SubSeq(s, 1, Len(s) - 1)) * 10 + DigitOf(s[Len(s)])

IsNumeric(v) == v.t \in {"int", "bool", "float"}
IsIntLike(v) == v.t \in {"int", "bool"}

(* The number a numeric value stands for, in tenths.                        *)
Tenths(v) ==
    CASE v.t = "int" -> v.v * 10
      [] v.t = "bool" -> IF v.v THEN 10 ELSE 0
      [] v.t = "float" -> v.v

IntOf(v) == IF v.t = "bool" THEN (IF v.v THEN 1 ELSE 0) ELSE v.v

(* isinstance(value, type_map[type_name]): a bool is an int in Python.      *)
isinstance(v, type_name) ==
    CASE type_name = "int" -> v.t \in {"int", "bool"}
      [] type_name = "float" -> v.t = "float"
      [] type_name = "str" -> v.t = "str"
      [] type_name = "bool" -> v.t = "bool"
      [] OTHER -> FALSE

(* repr() of a list element, str() of anything else.                        *)
ScalarStr(v, quoted) ==
    CASE v.t = "int" -> IntStr(v.v)
      [] v.t = "bool" -> IF v.v THEN <<"True">> ELSE <<"False">>
      [] v.t = "float" ->
            (IF v.v < 0 THEN <<"-">> ELSE <<>>)
            \o NatStr((IF v.v < 0 THEN -v.v ELSE v.v) \div 10)
            \o <<".", DigitChars[((IF v.v < 0 THEN -v.v ELSE v.v) % 10) + 1]>>
      [] v.t = "str" -> IF quoted THEN <<"'">> \o v.v \o <<"'">> ELSE v.v
      [] v.t = "NoneType" -> <<"None">>
      [] v.t = "builtin" -> <<"<built-in function ", v.name, ">">>
      [] OTHER -> <<"<", v.t, " object>">>

RECURSIVE JoinReprs(_)
JoinReprs(items) ==
    IF Len(items) = 0 THEN <<>>
    ELSE IF Len(items) = 1 THEN ScalarStr(items[1], TRUE)
    ELSE ScalarStr(items[1], TRUE) \o <<", ">> \o JoinReprs(Tail(items))

PyStr(v, ls) ==
    IF v.t = "list" THEN <<"[">> \o JoinReprs(ls[v.ref]) \o <<"]">>
    ELSE ScalarStr(v, FALSE)

(* int(x) *)
PyInt(v) ==
    CASE v.t \in {"int", "bool"} -> Ok(IntV(IntOf(v)))
      [] v.t = "float" ->
            Ok(IntV(IF v.v >= 0 THEN v.v \div 10 ELSE -((-v.v) \div 10)))
      [] v.t = "str" ->
            IF IsDigits(v.v) THEN Ok(IntV(NatOf(v.v)))
            ELSE IF Len(v.v) > 1 /\ v.v[1] = "-" /\ IsDigits(Tail(v.v))
                 THEN Ok(IntV(-NatOf(Tail(v.v))))
            ELSE Err("ValueError",
                     <<"invalid literal for int() with base 10: '">> \o v.v \o <<"'">>)
      [] OTHER -> Err("TypeError", <<"int() argument must be a string or a number">>)

(* float(x), for texts with at most one decimal.                            *)
FloatOfText(s) ==
    IF IsDigits(s) THEN Ok(FloatV(NatOf(s) * 10))
    ELSE IF Len(s) > 2 /\ s[Len(s) - 1] = "." /\ IsDigits(SubSeq(s, 1, Len(s) - 2))
            /\ s[Len(s)] \in DigitSet
         THEN Ok(FloatV(NatOf(SubSeq(s, 1, Len(s) - 2)) * 10 + DigitOf(s[Len(s)])))
    ELSE Err("ValueError", <<"could not convert string to float: '">> \o s \o <<"'">>)

PyFloat(v) ==
    CASE IsNumeric(v) -> Ok(FloatV(Tenths(v)))
      [] v.t = "str" ->
            IF Len(v.v) > 1 /\ v.v[1] = "-"
            THEN LET r == FloatOfText(Tail(v.v)) IN
                 IF r.ok THEN Ok(FloatV(-r.val.v)) ELSE FloatOfText(v.v)
            ELSE FloatOfText(v.v)
      [] OTHER -> Err("TypeError", <<"float() argument must be a string or a number">>)

(* Python truth value: "if x", "not x".                                     *)
Truthy(v, ls) ==
    CASE v.t = "bool" -> v.v
      [] v.t \in {"int", "float"} -> v.v # 0
      [] v.t = "str" -> Len(v.v) > 0
      [] v.t = "list" -> Len(ls[v.ref]) > 0
      [] v.t = "NoneType" -> FALSE
      [] OTHER -> TRUE

(* a == b on scalars; objects compare by identity.                          *)
ScalarEq(a, b) ==
    IF IsNumeric(a) /\ IsNumeric(b) THEN Tenths(a) = Tenths(b)
    ELSE IF a.t # b.t THEN FALSE
    ELSE a = b

PyEq(a, b, ls) ==
    IF a.t = "list" /\ b.t = "list"
    THEN /\ Len(ls[a.ref]) = Len(ls[b.ref])
         /\ \A i \in 1..Len(ls[a.ref]) : ScalarEq(ls[a.ref][i], ls[b.ref][i])
    ELSE ScalarEq(a, b)

FloorDiv(a, b) == IF b > 0 THEN a \div b ELSE (-a) \div (-b)

----------------------------------------------------------------------------
(* The native built-ins registered by Interpreter.__init__.  A call yields  *)
(* a value or a Python exception, and the lists and the output after it.    *)

NativeNames ==
    <<"print", "int", "str", "float", "len", "assert", "append", "pop", "type",
      "input", "remove">>

NativeOk(v, ls, o) == [ok |-> TRUE, val |-> v, exc |-> None, lists |-> ls, out |-> o]
NativeErr(type, msg, ls, o) ==
    [ok |-> FALSE, val |-> None, exc |-> Exception(type, msg), lists |-> ls, out |-> o]
NativeOf(r, ls, o) ==
    IF r.ok THEN NativeOk(r.val, ls, o)
    ELSE [ok |-> FALSE, val |-> None, exc |-> r.exc, lists |-> ls, out |-> o]

(* The fewest and the most positional arguments each built-in accepts.      *)
NativeMinArgs(name) ==
    CASE name \in {"print", "int", "str", "float", "input"} -> 0
      [] name \in {"len", "assert", "pop", "type"} -> 1
      [] OTHER -> 2
NativeMaxArgs(name) ==
    CASE name = "print" -> 1000
      [] name \in {"str", "float", "len", "type", "input", "int"} -> 1
      [] OTHER -> 2

RemoveAt(s, i) == SubSeq(s, 1, i - 1) \o SubSeq(s, i + 1, Len(s))

gglang_append(args, ls, o) ==
    IF args[1].t # "list"
    THEN NativeErr("TypeError", <<"append() takes a list as the first argument.">>, ls, o)
    ELSE NativeOk(None, [ls EXCEPT ![args[1].ref] = Append(@, args[2])], o)

gglang_pop(args, ls, o) ==
    LET index == IF Len(args) = 2 THEN args[2] ELSE IntV(-1) IN
    IF args[1].t # "list"
    THEN NativeErr("TypeError", <<"pop() takes a list as the first argument.">>, ls, o)
    ELSE IF ~IsIntLike(index)
    THEN NativeErr("TypeError", <<"pop() index must be an integer.">>, ls, o)
    ELSE LET l == ls[args[1].ref]
             i == IF IntOf(index) < 0 THEN IntOf(index) + Len(l) ELSE IntOf(index)
         IN  IF Len(l) = 0
             THEN NativeErr("IndexError", <<"pop from empty list">>, ls, o)
             ELSE IF i < 0 \/ i >= Len(l)
             THEN NativeErr("IndexError", <<"pop index out of range">>, ls, o)
             ELSE NativeOk(l[i + 1], [ls EXCEPT ![args[1].ref] = RemoveAt(l, i + 1)], o)

gglang_remove(args, ls, o) ==
    IF args[1].t # "list"
    THEN NativeErr("TypeError", <<"remove() takes a list as the first argument.">>, ls, o)
    ELSE LET l == ls[args[1].ref]
             hits == {i \in 1..Len(l) : PyEq(l[i], args[2], ls)}
         IN  IF hits = {}
             THEN NativeErr("ValueError",
                            <<"value '">> \o PyStr(args[2], ls) \o <<"' not found in list.">>,
                            ls, o)
             ELSE LET first == CHOOSE i \in hits : \A j \in hits : i <= j
                  IN  NativeOk(None, [ls EXCEPT ![args[1].ref] = RemoveAt(l, first)], o)

gglang_assert(args, ls, o) ==
    LET message == IF Len(args) = 2 THEN args[2] ELSE None IN
    IF Truthy(args[1], ls) THEN NativeOk(None, ls, o)
    ELSE IF Truthy(message, ls)
         THEN NativeErr("AssertionError", PyStr(message, ls), ls, o)
         ELSE NativeErr("AssertionError", <<"Assertion failed.">>, ls, o)

gglang_type(args, ls, o) == NativeOk(StrV(<<args[1].t>>), ls, o)

(* input() reads standard input, which the model does not hold: no program  *)
(* of the model calls it.                                                   *)
NativeModelled(name, args) == name # "input" /\ (name \in {"int", "float"} => Len(args) = 1)

NativeCall(name, args, ls, o) ==
    IF Len(args) < NativeMinArgs(name) \/ Len(args) > NativeMaxArgs(name)
    THEN NativeErr("TypeError", <<name, "() got a wrong number of arguments">>, ls, o)
    ELSE CASE name = "print" ->
                NativeOk(None, ls, Append(o, [i \in 1..Len(args) |-> PyStr(args[i], ls)]))
           [] name = "int" -> NativeOf(PyInt(args[1]), ls, o)
           [] name = "float" -> NativeOf(PyFloat(args[1]), ls, o)
           [] name = "str" ->
                NativeOk(StrV(IF Len(args) = 0 THEN <<>> ELSE PyStr(args[1], ls)), ls, o)
           [] name = "len" ->
                IF args[1].t = "str" THEN NativeOk(IntV(Len(args[1].v)), ls, o)
                ELSE IF args[1].t = "list" THEN NativeOk(IntV(Len(ls[args[1].ref])), ls, o)
                ELSE NativeErr("TypeError", <<"object of type '", args[1].t, "' has no len()">>,
                               ls, o)
           [] name = "assert" -> gglang_assert(args, ls, o)
           [] name = "append" -> gglang_append(args, ls, o)
           [] name = "pop" -> gglang_pop(args, ls, o)
           [] name = "type" -> gglang_type(args, ls, o)
           [] name = "remove" -> gglang_remove(args, ls, o)

----------------------------------------------------------------------------
(* AST nodes (src/gglang/ast.py), as the parser builds them.                *)

Program(statements) == [kind |-> "Program", statements |-> statements]
VarDecl(name, var_type, value) ==
    [kind |-> "VarDecl", name |-> name, var_type |-> var_type, value |-> value]
Assignment(target, value) == [kind |-> "Assignment", target |-> target, value |-> value]
BinOp(left, op, right) == [kind |-> "BinOp", left |-> left, op |-> op, right |-> right]
Pipe(left, op, right) == [kind |-> "Pipe", left |-> left, op |-> op, right |-> right]
ArrayLiteral(elements) == [kind |-> "ArrayLiteral", elements |-> elements]
ArrayAccess(array, index) == [kind |-> "ArrayAccess", array |-> array, index |-> index]
ForLoop(variable, iterable, body) ==
    [kind |-> "ForLoop", variable |-> variable, iterable |-> iterable, body |-> body]
ClassDecl(name, superclass, body) ==
    [kind |-> "ClassDecl", name |-> name, superclass |-> superclass, body |-> body]
PropertyAccess(object, name) == [kind |-> "PropertyAccess", object |-> object, name |-> name]
MethodCall(callee, args) == [kind |-> "MethodCall", callee |-> callee, args |-> args]
InstanceVar(name) == [kind |-> "InstanceVar", name |-> name]
(* var_type is declared a Type node; visit_instancevardecl reads it as a    *)
(* type name.  type_node tells which of the two the node holds.             *)
InstanceVarDecl(name, var_type, value) ==
    [kind |-> "InstanceVarDecl", name |-> name, var_type |-> var_type, value |-> value,
     type_node |-> FALSE]
Super == [kind |-> "Super"]
Block(statements) == [kind |-> "Block", statements |-> statements]
Type(name) == [kind |-> "Type", name |-> name]
Param(name, param_type) ==
    [kind |-> "Param", name |-> name, param_type |-> Type(param_type), is_ref |-> FALSE]
FuncDecl(name, params, body) ==
    [kind |-> "FuncDecl", name |-> name, params |-> params,
     return_type |-> Type("int"), body |-> body]
Integer(value) == [kind |-> "Integer", value |-> value]
Float(tenths) == [kind |-> "Float", value |-> tenths]
String(value) == [kind |-> "String", value |-> value]
Variable(name) == [kind |-> "Variable", name |-> name]
Call(callee, args) == [kind |-> "Call", callee |-> callee, args |-> args]
Return(value) == [kind |-> "Return", value |-> value]
RepetitionModifier(count) == [kind |-> "RepetitionModifier", count |-> count]
ConditionalModifier(condition) == [kind |-> "ConditionalModifier", condition |-> condition]
ModifiedExpression(expression, modifiers) ==
    [kind |-> "ModifiedExpression", expression |-> expression, modifiers |-> modifiers]
TypedPipeTarget(name, var_type) ==
    [kind |-> "TypedPipeTarget", name |-> name, var_type |-> Type(var_type)]
TryCatch(try_block, exception_var, catch_block) ==
    [kind |-> "TryCatch", try_block |-> try_block, exception_var |-> exception_var,
     catch_block |-> catch_block]
(* AstTransformer.instance_var_decl: the declaration with a type, its       *)
(* var_type the Type node itself.                                           *)
instance_var_decl(name, var_type, value) ==
    [InstanceVarDecl(name, var_type, value) EXCEPT !.type_node = TRUE]
(* Python's None where a node is optional (VarDecl.value, ...).             *)
NoNode == [kind |-> "None"]

----------------------------------------------------------------------------
(* The programs the interpreter is run on.                                  *)

Lit(n) == Integer(n)
Stmts(body) == Block(body)
Fn(name, params, body) == FuncDecl(name, params, Stmts(body))
Say(args) == Call(Variable("print"), args)

V(name) == Variable(name)
Text(piece) == String(<<piece>>)
CallN(name, args) == Call(Variable(name), args)
Placeholder == Variable("_")

In(tmpl, a, b, c, s, u) == [tmpl |-> tmpl, a |-> a, b |-> b, c |-> c, s |-> s, u |-> u]

(* return inside try: fn f() { try { W[return a] } catch (e) { print("caught", e) }  *)
(* return 99 }  print(f()), W the wrapping s of the return statement.       *)
ReturnWraps == {"direct", "block", "for"}
InputsTryReturn == {In("try_return", a, 0, 0, w, "") : a \in 0..MaxX, w \in ReturnWraps}
ProgramTryReturn(in) ==
    LET ret == Return(Lit(in.a))
        wrapped == CASE in.s = "direct" -> ret
                     [] in.s = "block" -> Stmts(<<ret>>)
                     [] in.s = "for" -> ForLoop("i", ArrayLiteral(<<Lit(1), Lit(2)>>),
                                                Stmts(<<ret>>))
    IN  Program(<< Fn("f", <<>>,
                      << TryCatch(Stmts(<<wrapped>>), "e",
                                  Stmts(<<Say(<<Text("caught"), V("e")>>)>>)),
                         Return(Lit(99)) >>),
                   Say(<<CallN("f", <<>>)>>) >>)

(* super dispatch: class A { m } class B(A) { m: super.m() } class C(B) { } *)
(* class D(C) { }; var o = s(); o.m()                                       *)
InputsSuper == {In("super", 0, 0, 0, k, "") : k \in {"B", "C", "D"}}
ProgramSuper(in) ==
    Program(<< ClassDecl("A", "", Stmts(<<Fn("m", <<>>, <<Say(<<Text("A.m")>>)>>)>>)),
               ClassDecl("B", "A",
                         Stmts(<<Fn("m", <<>>,
                                    << Say(<<Text("B.m")>>),
                                       MethodCall(PropertyAccess(Super, "m"), <<>>) >>)>>)),
               ClassDecl("C", "B", Stmts(<<>>)),
               ClassDecl("D", "C", Stmts(<<>>)),
               VarDecl("o", "", CallN(in.s, <<>>)),
               MethodCall(PropertyAccess(V("o"), "m"), <<>>),
               Say(<<Text("end")>>) >>)

(* coercion pipe and direct call: fn f(q: str, p: T) { return p }           *)
(* try { var r = v ~~> f("q", _); print(type(r), r) }                       *)
(* catch (e) { print("error", e) }                                          *)
(* try { var d = f("q", T(v)); print(type(d), d) }                          *)
(* catch (e) { print("error", e) }, T = s, v of kind u made from a.         *)
PrimitiveTypes == {"int", "float", "str", "bool"}
ValueKinds == {"int", "float", "str", "bool", "word"}
ValueNode(kind, a) ==
    CASE kind = "int" -> Lit(a)
      [] kind = "float" -> Float(a * 10 + 5)
      [] kind = "str" -> String(NatStr(a))
      [] kind = "bool" -> IF a % 2 = 1 THEN V("true") ELSE V("false")
      [] kind = "word" -> String(<<"x">> \o NatStr(a))
InputsCoerce ==
    {In("coerce", a, 0, 0, t, k) : a \in 0..MaxX, t \in PrimitiveTypes, k \in ValueKinds}
ProgramCoerce(in) ==
    LET v == ValueNode(in.u, in.a)
        failed == Stmts(<<Say(<<Text("error"), V("e")>>)>>)
    IN  Program(<< Fn("f", <<Param("q", "str"), Param("p", in.s)>>, <<Return(V("p"))>>),
                   TryCatch(Stmts(<< VarDecl("r", "", Pipe(v, "~~>",
                                                  CallN("f", <<Text("q"), Placeholder>>))),
                                     Say(<<CallN("type", <<V("r")>>), V("r")>>) >>),
                            "e", failed),
                   TryCatch(Stmts(<< VarDecl("d", "", CallN("f", <<Text("q"),
                                                               CallN(in.s, <<v>>)>>)),
                                     Say(<<CallN("type", <<V("d")>>), V("d")>>) >>),
                            "e", failed) >>)

(* an uncaught error of kind s, at the top level or in main (u).            *)
ErrorKinds ==
    {"NameUndefined", "NameUninitialized", "TypeMismatch", "ArityMismatch",
     "IndexOutOfRange", "ValueNotFound", "DivideByZero", "CoercionFailed",
     "AssertionFailed", "NotCallable", "None"}
ErrorStatements(kind) ==
    CASE kind = "NameUndefined" -> <<Say(<<V("nope")>>)>>
      [] kind = "NameUninitialized" -> <<VarDecl("z", "int", NoNode), Say(<<V("z")>>)>>
      [] kind = "TypeMismatch" -> <<Say(<<BinOp(Lit(1), "+", Text("a"))>>)>>
      [] kind = "ArityMismatch" -> <<CallN("g", <<>>)>>
      [] kind = "IndexOutOfRange" -> <<CallN("pop", <<ArrayLiteral(<<>>)>>)>>
      [] kind = "ValueNotFound" -> <<CallN("remove", <<ArrayLiteral(<<Lit(1)>>), Lit(2)>>)>>
      [] kind = "DivideByZero" -> <<Say(<<BinOp(Lit(1), "/", Lit(0))>>)>>
      [] kind = "CoercionFailed" ->
            <<Say(<<Pipe(Text("x"), "~~>", CallN("g", <<Placeholder>>))>>)>>
      [] kind = "AssertionFailed" -> <<CallN("assert", <<V("false"), Text("nope")>>)>>
      [] kind = "NotCallable" -> <<Call(Lit(1), <<>>)>>
      [] kind = "None" -> <<Say(<<Text("fine")>>)>>
InputsError == {In("error", 0, 0, 0, k, w) : k \in ErrorKinds, w \in {"top", "main"}}
ProgramError(in) ==
    LET g == Fn("g", <<Param("p", "int")>>, <<Return(V("p"))>>)
        body == ErrorStatements(in.s) \o <<Say(<<Text("after")>>)>>
    IN  IF in.u = "top" THEN Program(<<g>> \o body)
        ELSE Program(<<g, Fn("main", <<>>, body)>>)

(* nesting: fn f() { W1[ W2[leaf]; print("in") ]; print("out"); return 5 }  *)
(* with W1 = s and W2 = u wrapping statements in a for loop, a try block, a *)
(* catch block, a pipeline step, a repeated step or a call (through w1 and  *)
(* w2), and print(f()) at the top level, inside try/catch when b = 1.       *)
Leaves == <<"normal", "return", "name_error", "zero_division">>
Wraps == {"none", "for", "try", "catch", "step", "mod", "call"}
LeafStatement(a) ==
    CASE Leaves[a] = "normal" -> Say(<<Text("leaf")>>)
      [] Leaves[a] = "return" -> Return(Lit(7))
      [] Leaves[a] = "name_error" -> Say(<<V("nope")>>)
      [] Leaves[a] = "zero_division" -> Say(<<BinOp(Lit(1), "/", Lit(0))>>)
Wrap(kind, body, fname) ==
    CASE kind = "none" -> body
      [] kind = "for" -> <<ForLoop("i", ArrayLiteral(<<Lit(1), Lit(2)>>), Stmts(body))>>
      [] kind = "try" -> <<TryCatch(Stmts(body), "e", Stmts(<<Say(<<Text("c"), V("e")>>)>>))>>
      [] kind = "catch" -> <<TryCatch(Stmts(<<Say(<<V("nope")>>)>>), "e", Stmts(body))>>
      [] kind = "step" ->
            <<Say(<<Pipe(Lit(1), "-->", CallN(fname, <<Placeholder>>))>>)>>
      [] kind = "mod" ->
            <<Say(<<Pipe(Lit(1), "-->",
                         ModifiedExpression(CallN(fname, <<Placeholder>>),
                                            <<RepetitionModifier(2)>>))>>)>>
      [] kind = "call" -> <<Say(<<CallN(fname, <<Lit(1)>>)>>)>>
InputsNest ==
    {In("nest", a, b, 0, w1, w2) : a \in 1..Len(Leaves), b \in 0..1, w1 \in Wraps, w2 \in Wraps}
ProgramNest(in) ==
    LET leaf == <<LeafStatement(in.a)>>
        inner == Wrap(in.u, leaf, "w2") \o <<Say(<<Text("in")>>)>>
        outer == Wrap(in.s, inner, "w1") \o <<Say(<<Text("out")>>), Return(Lit(5))>>
        run == Say(<<CallN("f", <<>>)>>)
    IN  Program(<< Fn("w2", <<Param("p", "int")>>, leaf),
                   Fn("w1", <<Param("p", "int")>>, inner),
                   Fn("f", <<>>, outer),
                   IF in.b = 1
                   THEN TryCatch(Stmts(<<run>>), "e", Stmts(<<Say(<<Text("top"), V("e")>>)>>))
                   ELSE run,
                   Say(<<Text("end")>>) >>)

(* the placeholder: fn g(p: int) { body u }                                 *)
(* try { var r = a PIPE g(_); print(r) } catch (e) { print("err", e) }      *)
(* print(_), PIPE of kind s.                                                *)
PipeKinds == {"plain", "coercion", "modified", "typed"}
StepBodies == {"value", "placeholder", "nested", "error"}
StepBody(kind) ==
    CASE kind = "value" -> Return(BinOp(V("p"), "+", Lit(1)))
      [] kind = "placeholder" -> Return(Placeholder)
      [] kind = "nested" -> Return(Pipe(V("p"), "-->", BinOp(Placeholder, "+", Lit(1))))
      [] kind = "error" -> Return(BinOp(V("p"), "/", Lit(0)))
PipeOf(kind, left) ==
    LET step == CallN("g", <<Placeholder>>) IN
    CASE kind = "plain" -> Pipe(left, "-->", step)
      [] kind = "coercion" -> Pipe(left, "~~>", step)
      [] kind = "modified" ->
            Pipe(left, "-->", ModifiedExpression(step, <<RepetitionModifier(2)>>))
      [] kind = "typed" -> Pipe(Pipe(left, "-->", step), "-->", TypedPipeTarget("y", "int"))
InputsPlaceholder ==
    {In("placeholder", a, 0, 0, k, body) : a \in 0..MaxX, k \in PipeKinds, body \in StepBodies}
ProgramPlaceholder(in) ==
    Program(<< Fn("g", <<Param("p", "int")>>, <<StepBody(in.u)>>),
               TryCatch(Stmts(<< VarDecl("r", "", PipeOf(in.s, Lit(in.a))),
                                 Say(<<V("r")>>) >>),
                        "e", Stmts(<<Say(<<Text("err"), V("e")>>)>>)),
               Say(<<Placeholder>>) >>)

(* repetition: fn double(n: int) { return n * 2 }                           *)
(* var y = a --> STEP xN; print(y), N = c, STEP written as u.               *)
StepForms == {"call", "bare", "expression"}
InputsRepeat ==
    {In("repeat", a, 0, n, "", form) : a \in 0..MaxX, n \in 1..MaxN, form \in StepForms}
ProgramRepeat(in) ==
    LET step == CASE in.u = "call" -> CallN("double", <<Placeholder>>)
                  [] in.u = "bare" -> V("double")
                  [] in.u = "expression" -> BinOp(Placeholder, "*", Lit(2))
    IN  Program(<< Fn("double", <<Param("n", "int")>>,
                      <<Return(BinOp(V("n"), "*", Lit(2)))>>),
                   Fn("main", <<>>,
                      << VarDecl("y", "", Pipe(Lit(in.a), "-->",
                                     ModifiedExpression(step, <<RepetitionModifier(in.c)>>))),
                         Say(<<V("y")>>),
                         Return(Lit(0)) >>) >>)

(* condition and repetition: fn inc(n: int) { print("inc", n); return n + 1 } *)
(* fn ok(n: int) { print("ok", n); return n < b }                           *)
(* var y = a --> inc(_) MODS; print(y), MODS = xN and ?ok(_) in the order u, *)
(* or xN alone.                                                             *)
ModifierOrders == {"condition_first", "repetition_first", "repetition_only"}
InputsCondition ==
    {In("condition", a, b, n, "", order) :
        a \in 0..MaxX, b \in 0..MaxX, n \in 1..MaxN, order \in ModifierOrders}
ProgramCondition(in) ==
    LET cond == ConditionalModifier(CallN("ok", <<Placeholder>>))
        rep == RepetitionModifier(in.c)
        mods == CASE in.u = "condition_first" -> <<cond, rep>>
                  [] in.u = "repetition_first" -> <<rep, cond>>
                  [] in.u = "repetition_only" -> <<rep>>
    IN  Program(<< Fn("inc", <<Param("n", "int")>>,
                      <<Say(<<Text("inc"), V("n")>>), Return(BinOp(V("n"), "+", Lit(1)))>>),
                   Fn("ok", <<Param("n", "int")>>,
                      <<Say(<<Text("ok"), V("n")>>), Return(BinOp(V("n"), "<", Lit(in.b)))>>),
                   VarDecl("y", "", Pipe(Lit(in.a), "-->",
                                         ModifiedExpression(CallN("inc", <<Placeholder>>),
                                                            mods))),
                   Say(<<V("y")>>) >>)

(* inherited method: class A { fn m() { @seen = a; return this } }          *)
(* class B(A) { }  class C(B) { }  var d = s(); var c = s(); var r = c.m()  *)
(* print(r == c, r == d, c.seen); with u = "initialize" class A also has    *)
(* fn initialize(v: int) { @first = v }, m sets @seen = @first + 1, and the *)
(* instances are made by s(a).                                              *)
InstanceForms == {"fields", "initialize"}
InputsInherit ==
    {In("inherit", a, 0, 0, k, form) :
        a \in 0..MaxX, k \in {"A", "B", "C"}, form \in InstanceForms}
ProgramInherit(in) ==
    LET init == in.u = "initialize"
        m == Fn("m", <<>>,
                << InstanceVarDecl("seen", "",
                                   IF init THEN BinOp(InstanceVar("first"), "+", Lit(1))
                                   ELSE Lit(in.a)),
                   Return(V("this")) >>)
        initialize == Fn("initialize", <<Param("v", "int")>>,
                         <<InstanceVarDecl("first", "", V("v"))>>)
        new == CallN(in.s, IF init THEN <<Lit(in.a)>> ELSE <<>>)
    IN  Program(<< ClassDecl("A", "", Stmts(IF init THEN <<initialize, m>> ELSE <<m>>)),
                   ClassDecl("B", "A", Stmts(<<>>)),
                   ClassDecl("C", "B", Stmts(<<>>)),
                   VarDecl("d", "", new),
                   VarDecl("c", "", new),
                   VarDecl("r", "", MethodCall(PropertyAccess(V("c"), "m"), <<>>)),
                   Say(<< BinOp(V("r"), "==", V("c")), BinOp(V("r"), "==", V("d")),
                          PropertyAccess(V("c"), "seen") >>) >>)

(* a loop that changes its list: var l = [a, a + 1, ...] of length b        *)
(* for x in l { print(x); MUTATION s }  print(l)                            *)
Mutations == {"none", "append", "pop", "pop_first", "remove", "assign"}
Mutation(kind) ==
    CASE kind = "none" -> <<>>
      [] kind = "append" -> <<CallN("append", <<V("l"), Lit(9)>>)>>
      [] kind = "pop" -> <<CallN("pop", <<V("l")>>)>>
      [] kind = "pop_first" -> <<CallN("pop", <<V("l"), Lit(0)>>)>>
      [] kind = "remove" -> <<CallN("remove", <<V("l"), V("x")>>)>>
      [] kind = "assign" ->
            <<Assignment(ArrayAccess(V("l"), Lit(0)),
                         BinOp(ArrayAccess(V("l"), Lit(0)), "+", Lit(5)))>>
InputsSnapshot ==
    {In("snapshot", a, n, 0, k, "") : a \in 0..MaxX, n \in 0..MaxLen, k \in Mutations}
ProgramSnapshot(in) ==
    Program(<< VarDecl("l", "", ArrayLiteral([i \in 1..in.b |-> Lit(in.a + i - 1)])),
               ForLoop("x", V("l"), Stmts(<<Say(<<V("x")>>)>> \o Mutation(in.s))),
               Say(<<V("l")>>) >>)

(* main: print(1) ... print(a) at the top level, with a declaration of     *)
(* main of kind s after the first of them:                                  *)
(* fn main() { print("main") }, var main = 5, var main: int,                *)
(* class main { fn initialize() { print("init") } }, var main = print,      *)
(* or none.                                                                 *)
MainKinds == {"none", "function", "integer", "uninitialized", "class", "native"}
MainDeclaration(kind) ==
    CASE kind = "none" -> <<>>
      [] kind = "function" -> <<Fn("main", <<>>, <<Say(<<Text("main")>>)>>)>>
      [] kind = "integer" -> <<VarDecl("main", "", Lit(5))>>
      [] kind = "uninitialized" -> <<VarDecl("main", "int", NoNode)>>
      [] kind = "class" ->
            <<ClassDecl("main", "",
                        Stmts(<<Fn("initialize", <<>>, <<Say(<<Text("init")>>)>>)>>))>>
      [] kind = "native" -> <<VarDecl("main", "", V("print"))>>
InputsMain == {In("main", a, 0, 0, k, "") : a \in 0..MaxX, k \in MainKinds}
ProgramMain(in) ==
    LET first == IF in.a = 0 THEN <<>> ELSE <<Say(<<Lit(1)>>)>>
        rest == IF in.a <= 1 THEN <<>> ELSE [i \in 1..(in.a - 1) |-> Say(<<Lit(i + 1)>>)]
    IN  Program(first \o MainDeclaration(in.s) \o rest)

(* a name without a value: class K { fn initialize() { @x: int }            *)
(* fn read() { return @x } }  var o = K()  var z: int                       *)
(* print(READ)  print("after"), READ = z, o.read() or o.x (s); the type of  *)
(* @x a Type node, a type name or absent (u).                               *)
UninitializedReads == {"variable", "instance_var", "property"}
TypeForms == {"node", "name", "absent"}
InputsUninitialized ==
    {In("uninitialized", 0, 0, 0, r, f) : r \in UninitializedReads, f \in TypeForms}
ProgramUninitialized(in) ==
    LET decl == CASE in.u = "node" -> instance_var_decl("x", "int", NoNode)
                  [] in.u = "name" -> InstanceVarDecl("x", "int", NoNode)
                  [] in.u = "absent" -> InstanceVarDecl("x", "", NoNode)
        read == CASE in.s = "variable" -> V("z")
                  [] in.s = "instance_var" ->
                        MethodCall(PropertyAccess(V("o"), "read"), <<>>)
                  [] in.s = "property" -> PropertyAccess(V("o"), "x")
    IN  Program(<< ClassDecl("K", "",
                             Stmts(<< Fn("initialize", <<>>, <<decl>>),
                                      Fn("read", <<>>, <<Return(InstanceVar("x"))>>) >>)),
                   VarDecl("z", "int", NoNode),
                   VarDecl("o", "", IF in.s = "variable" THEN Lit(0) ELSE CallN("K", <<>>)),
                   Say(<<read>>),
                   Say(<<Text("after")>>) >>)

(* a typed parameter: fn f(p: T, q: str) { print("body") return p }         *)
(* try { print(f(v, w)) } catch (e) { print("error", e) }                   *)
(* T = s, v of kind u made from a, w a string (b = 0) or an integer.        *)
ArgumentKinds == {"int", "float", "str", "bool"}
InputsTyped ==
    {In("typed", a, b, 0, t, k) :
        a \in 0..MaxX, b \in 0..1, t \in PrimitiveTypes, k \in ArgumentKinds}
ProgramTyped(in) ==
    LET v == ValueNode(in.u, in.a)
        w == IF in.b = 0 THEN Text("w") ELSE Lit(7)
    IN  Program(<< Fn("f", <<Param("p", in.s), Param("q", "str")>>,
                      <<Say(<<Text("body")>>), Return(V("p"))>>),
                   TryCatch(Stmts(<<Say(<<CallN("f", <<v, w>>)>>)>>),
                            "e", Stmts(<<Say(<<Text("error"), V("e")>>)>>)) >>)

(* an assignment under shadowing: var x = 1  var y = 2  var w = 3           *)
(* fn f(x: int) { for (y in [5]) { [T = v]  print(x, y, w) }  [T = v]       *)
(*                print(x, y, w) }                                          *)
(* try { f(4) } catch (e) { print("error", e) }  print(x, y, w)             *)
(* T = s, v = a + 6; the assignment in the loop body (b = 1) or after it.   *)
AssignTargets == {"x", "y", "w", "nope"}
InputsAssign ==
    {In("assign", a, b, 0, t, "") : a \in 0..MaxX, b \in 0..1, t \in AssignTargets}
ProgramAssign(in) ==
    LET set == <<Assignment(V(in.s), Lit(in.a + 6))>>
        show == Say(<<V("x"), V("y"), V("w")>>)
        inner == (IF in.b = 1 THEN set ELSE <<>>) \o <<show>>
    IN  Program(<< VarDecl("x", "", Lit(1)), VarDecl("y", "", Lit(2)),
                   VarDecl("w", "", Lit(3)),
                   Fn("f", <<Param("x", "int")>>,
                      <<ForLoop("y", ArrayLiteral(<<Lit(5)>>), Stmts(inner))>>
                      \o (IF in.b = 0 THEN set ELSE <<>>) \o <<show>>),
                   TryCatch(Stmts(<<CallN("f", <<Lit(4)>>)>>),
                            "e", Stmts(<<Say(<<Text("error"), V("e")>>)>>)),
                   show >>)

(* a construction: class A { fn initialize(v: int) { print("init", v)       *)
(* @n = v  RETURN } }  class B : A {}  class P {}                           *)
(* var o = K(a)  var p = K(a)  print(o == p, o == 99, o == "init")          *)
(* try { print(o.n) } catch (e) { print("error", e) }                       *)
(* K = s (P takes no argument); RETURN = u: absent, return 99, return this, *)
(* return "init".                                                           *)
InitializerReturns == {"absent", "other", "this", "text"}
InputsConstruct ==
    {In("construct", a, 0, 0, k, ret) :
        a \in 0..MaxX, k \in {"A", "B", "P"}, ret \in InitializerReturns}
ProgramConstruct(in) ==
    LET ret == CASE in.u = "absent" -> <<>>
                 [] in.u = "other" -> <<Return(Lit(99))>>
                 [] in.u = "this" -> <<Return(V("this"))>>
                 [] in.u = "text" -> <<Return(Text("init"))>>
        initialize == Fn("initialize", <<Param("v", "int")>>,
                         << Say(<<Text("init"), V("v")>>),
                            InstanceVarDecl("n", "", V("v")) >> \o ret)
        new == CallN(in.s, IF in.s = "P" THEN <<>> ELSE <<Lit(in.a)>>)
    IN  Program(<< ClassDecl("A", "", Stmts(<<initialize>>)),
                   ClassDecl("B", "A", Stmts(<<>>)),
                   ClassDecl("P", "", Stmts(<<>>)),
                   VarDecl("o", "", new),
                   VarDecl("p", "", new),
                   Say(<< BinOp(V("o"), "==", V("p")), BinOp(V("o"), "==", Lit(99)),
                          BinOp(V("o"), "==", Text("init")) >>),
                   TryCatch(Stmts(<<Say(<<PropertyAccess(V("o"), "n")>>)>>),
                            "e", Stmts(<<Say(<<Text("error"), V("e")>>)>>)) >>)

(* an error in a try block: fn g(p: int) { return p }  fn boom() { ERR }    *)
(* try { print("before")  ERR or boom()  print("skipped") }                 *)
(* catch (e) { print("caught", e) }                                         *)
(* try { print(e) } catch (x) { print("unbound", x) }                       *)
(* ERR of kind s, raised in the try block itself or in boom (u).            *)
InputsCatch == {In("catch", 0, 0, 0, k, w) : k \in ErrorKinds, w \in {"here", "function"}}
ProgramCatch(in) ==
    LET g == Fn("g", <<Param("p", "int")>>, <<Return(V("p"))>>)
        boom == Fn("boom", <<>>, ErrorStatements(in.s))
        raising == IF in.u = "here" THEN ErrorStatements(in.s) ELSE <<CallN("boom", <<>>)>>
    IN  Program(<< g, boom,
                   TryCatch(Stmts(<<Say(<<Text("before")>>)>> \o raising
                                  \o <<Say(<<Text("skipped")>>)>>),
                            "e", Stmts(<<Say(<<Text("caught"), V("e")>>)>>)),
                   TryCatch(Stmts(<<Say(<<V("e")>>)>>),
                            "x", Stmts(<<Say(<<Text("unbound"), V("x")>>)>>)) >>)

(* a return in nested blocks and loops:                                     *)
(* fn inner(n: int) { INNER  print("inner end") }                           *)
(* fn outer() { for (j in [1, 2]) { print("got", inner(j))  [return j] }    *)
(*              print("outer end") }                                        *)
(* print(outer())  print("end")                                             *)
(* INNER = u: print("i", ..) and return 7 in the body, in a block, in a     *)
(* for loop, in a block in two for loops, or a loop without return; the     *)
(* return of outer present (s = "for") or absent.                           *)
ReturnPlaces == {"absent", "body", "block", "for", "for_for_block"}
InputsReturn ==
    {In("return", 0, 0, 0, o, i) : o \in {"absent", "for"}, i \in ReturnPlaces}
ProgramReturn(in) ==
    LET both(x) == <<Say(<<Text("i"), x>>), Return(Lit(7))>>
        loop(var, body) == ForLoop(var, ArrayLiteral(<<Lit(1), Lit(2)>>), Stmts(body))
        place == CASE in.u = "absent" -> <<loop("i", <<Say(<<Text("i"), V("i")>>)>>)>>
                   [] in.u = "body" -> both(Lit(0))
                   [] in.u = "block" -> <<Stmts(both(Lit(0)))>>
                   [] in.u = "for" -> <<loop("i", both(V("i")))>>
                   [] in.u = "for_for_block" ->
                        <<loop("k", <<loop("i", <<Stmts(both(V("i")))>>)>>)>>
        got == Say(<<Text("got"), CallN("inner", <<V("j")>>)>>)
    IN  Program(<< Fn("inner", <<Param("n", "int")>>,
                      place \o <<Say(<<Text("inner end")>>)>>),
                   Fn("outer", <<>>,
                      << loop("j", <<got>> \o (IF in.s = "for" THEN <<Return(V("j"))>>
                                               ELSE <<>>)),
                         Say(<<Text("outer end")>>) >>),
                   Say(<<CallN("outer", <<>>)>>),
                   Say(<<Text("end")>>) >>)

(* scopes: var x = "global"  fn show() { print(x) }  fn peek() { print(y) } *)
(* fn make() { var x = "made"  fn in() { print(x) }  return in }            *)
(* class K { fn m() { print(x) } }  var h = make()  var o = K()             *)
(* fn caller(x: int) { var y = "only"  CALL  print("back", x, y) }          *)
(* try { caller(a) } catch (e) { print("error", e) }                        *)
(* CALL = s: show(), peek(), h() or o.m().                                  *)
Callees == {"show", "peek", "closure", "method"}
InputsScope == {In("scope", a, 0, 0, k, "") : a \in 0..MaxX, k \in Callees}
ProgramScope(in) ==
    LET call == CASE in.s = "show" -> CallN("show", <<>>)
                  [] in.s = "peek" -> CallN("peek", <<>>)
                  [] in.s = "closure" -> CallN("h", <<>>)
                  [] in.s = "method" -> MethodCall(PropertyAccess(V("o"), "m"), <<>>)
    IN  Program(<< VarDecl("x", "", Text("global")),
                   Fn("show", <<>>, <<Say(<<V("x")>>)>>),
                   Fn("peek", <<>>, <<Say(<<V("y")>>)>>),
                   Fn("make", <<>>, << VarDecl("x", "", Text("made")),
                                       Fn("in", <<>>, <<Say(<<V("x")>>)>>),
                                       Return(V("in")) >>),
                   ClassDecl("K", "", Stmts(<<Fn("m", <<>>, <<Say(<<V("x")>>)>>)>>)),
                   VarDecl("h", "", CallN("make", <<>>)),
                   VarDecl("o", "", CallN("K", <<>>)),
                   Fn("caller", <<Param("x", "int")>>,
                      << VarDecl("y", "", Text("only")), call,
                         Say(<<Text("back"), V("x"), V("y")>>) >>),
                   TryCatch(Stmts(<<CallN("caller", <<Lit(in.a)>>)>>),
                            "e", Stmts(<<Say(<<Text("error"), V("e")>>)>>)) >>)

(* the two pipes: fn g(p: int) { print("g", p)  return p + 1 }              *)
(* fn k() { print("k")  return 5 }  class K { fn m() { print("m")           *)
(* return 6 } }  var o = K()                                                *)
(* try { var r = a --> RIGHT  print("result", r) } catch (e) { print("error", e) } *)
(* try { var r = a ~~> RIGHT  print("result", r) } catch (e) { print("error", e) } *)
(* RIGHT = s: k(), o.m(), g(_) x2, or t: int followed by print(t).          *)
RightSides == {"call", "method", "modified", "typed"}
InputsPipes == {In("pipes", a, 0, 0, k, "") : a \in 0..MaxX, k \in RightSides}
ProgramPipes(in) ==
    LET right == CASE in.s = "call" -> CallN("k", <<>>)
                   [] in.s = "method" -> MethodCall(PropertyAccess(V("o"), "m"), <<>>)
                   [] in.s = "modified" ->
                        ModifiedExpression(CallN("g", <<Placeholder>>),
                                           <<RepetitionModifier(2)>>)
                   [] in.s = "typed" -> TypedPipeTarget("t", "int")
        part(op) ==
            TryCatch(Stmts(<< VarDecl("r", "", Pipe(Lit(in.a), op, right)),
                              Say(<<Text("result"), V("r")>>) >>
                           \o (IF in.s = "typed" THEN <<Say(<<V("t")>>)>> ELSE <<>>)),
                     "e", Stmts(<<Say(<<Text("error"), V("e")>>)>>))
    IN  Program(<< Fn("g", <<Param("p", "int")>>,
                      <<Say(<<Text("g"), V("p")>>), Return(BinOp(V("p"), "+", Lit(1)))>>),
                   Fn("k", <<>>, <<Say(<<Text("k")>>), Return(Lit(5))>>),
                   ClassDecl("K", "", Stmts(<<Fn("m", <<>>, <<Say(<<Text("m")>>),
                                                              Return(Lit(6))>>)>>)),
                   VarDecl("o", "", CallN("K", <<>>)),
                   part("-->"),
                   part("~~>") >>)

(* a call through a property: fn g(p: int) { print("g", p)  return p + 1 }  *)
(* fn say(v: int) { print("arg", v)  return v }  class P { }                *)
(* class K { fn initialize() { @f = VALUE }                                 *)
(*           fn m(p: int) { print("m", p)  return p + 2 } }  var o = K()    *)
(* try { print("result", o.NAME(ARG)) } catch (e) { print("error", e) }     *)
(* try { print("result", (o.NAME)(ARG)) } catch (e) { print("error", e) }   *)
(* the first a MethodCall, the second a Call of the PropertyAccess.         *)
(* VALUE = s: g, P, type or 5, NAME = f; for s = "method" NAME = m.         *)
(* ARG = a or say(a) (u).                                                   *)
FieldValues == {"method", "function", "class", "native", "integer"}
InputsFieldCall ==
    {In("field_call", a, 0, 0, k, arg) :
        a \in 0..MaxX, k \in FieldValues, arg \in {"plain", "effect"}}
ProgramFieldCall(in) ==
    LET value == CASE in.s = "function" -> V("g")
                   [] in.s = "class" -> V("P")
                   [] in.s = "native" -> V("type")
                   [] OTHER -> Lit(5)
        property == PropertyAccess(V("o"), IF in.s = "method" THEN "m" ELSE "f")
        args == <<IF in.u = "plain" THEN Lit(in.a) ELSE CallN("say", <<Lit(in.a)>>)>>
        part(call) ==
            TryCatch(Stmts(<<Say(<<Text("result"), call>>)>>),
                     "e", Stmts(<<Say(<<Text("error"), V("e")>>)>>))
    IN  Program(<< Fn("g", <<Param("p", "int")>>,
                      <<Say(<<Text("g"), V("p")>>), Return(BinOp(V("p"), "+", Lit(1)))>>),
                   Fn("say", <<Param("v", "int")>>,
                      <<Say(<<Text("arg"), V("v")>>), Return(V("v"))>>),
                   ClassDecl("P", "", Stmts(<<>>)),
                   ClassDecl("K", "",
                             Stmts(<< Fn("initialize", <<>>,
                                         <<InstanceVarDecl("f", "", value)>>),
                                      Fn("m", <<Param("p", "int")>>,
                                         << Say(<<Text("m"), V("p")>>),
                                            Return(BinOp(V("p"), "+", Lit(2))) >>) >>)),
                   VarDecl("o", "", CallN("K", <<>>)),
                   part(MethodCall(property, args)),
                   part(Call(property, args)) >>)

Inputs ==
    {In("arith", a, b, c, "", "") : a \in 0..MaxX, b \in 0..MaxX, c \in 0..MaxX}
    \cup InputsTryReturn \cup InputsSuper \cup InputsCoerce \cup InputsError
    \cup InputsNest \cup InputsPlaceholder \cup InputsRepeat \cup InputsCondition
    \cup InputsInherit \cup InputsSnapshot \cup InputsMain
    \cup InputsUninitialized \cup InputsTyped
    \cup InputsAssign \cup InputsConstruct
    \cup InputsCatch \cup InputsReturn
    \cup InputsScope \cup InputsPipes
    \cup InputsFieldCall

ProgramOf(in) ==
    CASE in.tmpl = "arith" ->
        Program(<< Fn("main", <<>>,
                      << VarDecl("x", "", BinOp(Lit(in.a), "+",
                                                BinOp(Lit(in.b), "*", Lit(in.c)))),
                         Say(<<Variable("x")>>),
                         Return(Lit(0)) >>) >>)
      [] in.tmpl = "try_return" -> ProgramTryReturn(in)
      [] in.tmpl = "super" -> ProgramSuper(in)
      [] in.tmpl = "coerce" -> ProgramCoerce(in)
      [] in.tmpl = "error" -> ProgramError(in)
      [] in.tmpl = "nest" -> ProgramNest(in)
      [] in.tmpl = "placeholder" -> ProgramPlaceholder(in)
      [] in.tmpl = "repeat" -> ProgramRepeat(in)
      [] in.tmpl = "condition" -> ProgramCondition(in)
      [] in.tmpl = "inherit" -> ProgramInherit(in)
      [] in.tmpl = "snapshot" -> ProgramSnapshot(in)
      [] in.tmpl = "main" -> ProgramMain(in)
      [] in.tmpl = "uninitialized" -> ProgramUninitialized(in)
      [] in.tmpl = "typed" -> ProgramTyped(in)
      [] in.tmpl = "assign" -> ProgramAssign(in)
      [] in.tmpl = "construct" -> ProgramConstruct(in)
      [] in.tmpl = "catch" -> ProgramCatch(in)
      [] in.tmpl = "return" -> ProgramReturn(in)
      [] in.tmpl = "scope" -> ProgramScope(in)
      [] in.tmpl = "pipes" -> ProgramPipes(in)
      [] in.tmpl = "field_call" -> ProgramFieldCall(in)

----------------------------------------------------------------------------
(* The machine.                                                             *)

Exec(node) == [mode |-> "exec", arg |-> node]
Ret(value) == [mode |-> "ret", arg |-> value]
Raise(exc) == [mode |-> "raise", arg |-> exc]
RaiseNew(type, msg) == Raise(Exception(type, msg))

Top == stack[Len(stack)]
Rest == SubSeq(stack, 1, Len(stack) - 1)

(* The interpreter's state as one record; a handler yields the next one.    *)
St ==
    [environment |-> environment, envs |-> envs, stack |-> stack, ctrl |-> ctrl,
     instances |-> instances, lists |-> lists, out |-> out]

Apply(s) ==
    /\ environment' = s.environment
    /\ envs' = s.envs
    /\ stack' = s.stack
    /\ ctrl' = s.ctrl
    /\ instances' = s.instances
    /\ lists' = s.lists
    /\ out' = s.out
    /\ UNCHANGED input

(* self.execute(node) dispatching to visit_<kind>, within Python's          *)
(* recursion limit.                                                         *)
Executing(kind) ==
    ctrl.mode = "exec" /\ Len(stack) <= MaxStack /\ ctrl.arg.kind = kind

(* A value comes back to the handler whose frame is on top.                 *)
Resuming(f) == ctrl.mode = "ret" /\ Len(stack) > 0 /\ Top.f = f

(* An exception reaches the handler whose frame is on top.                  *)
Unwinding(f) == ctrl.mode = "raise" /\ Len(stack) > 0 /\ Top.f = f

(* execute_block(block_node, environment): swap the current environment,   *)
(* run visit_block, restore in the finally clause.                          *)
BlockFrames(block_node, env, original_env) ==
    << [f |-> "execute_block", original_env |-> original_env, environment |-> env],
       [f |-> "visit_block", statements |-> block_node.statements, i |-> 0] >>

(* A variant without the finally clause: the environment is put back only   *)
(* when the body returns normally.                                          *)
RestoredEnvOnReturnOnly(frame, mode) ==
    IF mode = "ret" THEN frame.original_env ELSE frame.environment

(* finally: self.environment = original_env, on every way out.              *)
RestoredEnv(frame, mode) == frame.original_env

execute_block ==
    /\ ctrl.mode \in {"ret", "raise"} /\ Len(stack) > 0 /\ Top.f = "execute_block"
    /\ Apply([St EXCEPT !.environment = RestoredEnv(Top, ctrl.mode),
                        !.stack = Rest,
                        !.ctrl = IF ctrl.mode = "ret" THEN Ret(None) ELSE ctrl])

visit_block ==
    \/ /\ Executing("Block")
       /\ Apply([St EXCEPT !.stack = Append(stack, [f |-> "visit_block",
                                                     statements |-> ctrl.arg.statements,
                                                     i |-> 0]),
                           !.ctrl = Ret(None)])
    \/ /\ Resuming("visit_block")
       /\ IF Top.i < Len(Top.statements)
          THEN Apply([St EXCEPT !.stack[Len(stack)].i = Top.i + 1,
                                !.ctrl = Exec(Top.statements[Top.i + 1])])
          ELSE Apply([St EXCEPT !.stack = Rest, !.ctrl = Ret(None)])

(* GGLangFunction.__call__ up to the start of the body: the call frame,     *)
(* the arity check and the parameter type checks.  base is the stack the    *)
(* call returns to.                                                         *)
TypeMismatches(d, args) ==
    {i \in 1..Len(d.params) :
        /\ d.params[i].param_type.name \in {"int", "float", "str", "bool"}
        /\ ~isinstance(args[i], d.params[i].param_type.name)}

RECURSIVE BindParams(_, _, _, _, _)
BindParams(es, e, params, args, i) ==
    IF i > Len(params) THEN es
    ELSE BindParams(define(es, e, params[i].name, args[i]), e, params, args, i + 1)

(* A variant with dynamic scope: the call frame's parent is the caller's    *)
(* current environment.                                                     *)
CallEnclosingCaller(fn, s) == s.environment

(* Environment(enclosing=self.closure) *)
CallEnclosing(fn, s) == fn.closure

FunctionCall(fn, args, s, base) ==
    LET d == fn.declaration
        e == Len(s.envs) + 1
        es == Append(s.envs, Environment(CallEnclosing(fn, s)))
    IN  IF Len(args) # Len(d.params)
        THEN [s EXCEPT !.envs = es, !.stack = base,
                       !.ctrl = RaiseNew("TypeError",
                                    <<"Function '", d.name, "' expected ">>
                                    \o IntStr(Len(d.params))
                                    \o <<" arguments, but got ">>
                                    \o IntStr(Len(args)) \o <<".">>)]
        ELSE IF TypeMismatches(d, args) # {}
        THEN LET i == CHOOSE i \in TypeMismatches(d, args) :
                          \A j \in TypeMismatches(d, args) : i <= j
             IN  [s EXCEPT !.envs = es, !.stack = base,
                           !.ctrl = RaiseNew("TypeError",
                                        <<"Argument '", d.params[i].name, "' for function '",
                                          d.name, "' must be of type '",
                                          d.params[i].param_type.name,
                                          "', but got type '", args[i].t, "'.">>)]
        ELSE [s EXCEPT !.envs = BindParams(es, e, d.params, args, 1),
                       !.environment = e,
                       !.stack = base \o <<[f |-> "function_call", name |-> d.name,
                                              self |-> fn]>>
                                      \o BlockFrames(d.body, e, s.environment),
                       !.ctrl = Ret(None)]

(* The rest of GGLangFunction.__call__: except ReturnValue, or None.        *)
(* A variant that lets the Return signal pass to the caller's invocation.   *)
function_call_passing_return ==
    \/ /\ Resuming("function_call")
       /\ Apply([St EXCEPT !.stack = Rest, !.ctrl = Ret(None)])
    \/ /\ Unwinding("function_call")
       /\ Apply([St EXCEPT !.stack = Rest])

function_call ==
    \/ /\ Resuming("function_call")
       /\ Apply([St EXCEPT !.stack = Rest, !.ctrl = Ret(None)])
    \/ /\ Unwinding("function_call")
       /\ IF ctrl.arg.type = "ReturnValue"
          THEN Apply([St EXCEPT !.stack = Rest, !.ctrl = Ret(ctrl.arg.value)])
          ELSE Apply([St EXCEPT !.stack = Rest])

(* A variant that never runs main.                                          *)
InvokesMainNever(main_function) == FALSE

(* isinstance(main_function, GGLangFunction) *)
InvokesMain(main_function) == main_function.t = "GGLangFunction"

(* Interpreter.interpret: the top-level statements, then main.              *)
interpret ==
    /\ Len(stack) = 1 /\ Top.f = "interpret"
    /\ \/ /\ ctrl.mode = "ret" /\ Top.phase = "statements"
          /\ Top.i < Len(ProgramOf(input).statements)
          /\ Apply([St EXCEPT !.stack[1].i = Top.i + 1,
                              !.ctrl = Exec(ProgramOf(input).statements[Top.i + 1])])
       \/ /\ ctrl.mode = "ret" /\ Top.phase = "statements"
          /\ Top.i = Len(ProgramOf(input).statements)
          /\ LET main_function == get(envs, environment, "main") IN
             IF ~main_function.ok
             THEN Apply([St EXCEPT !.ctrl = [mode |-> "done", arg |-> None]])
             ELSE IF InvokesMain(main_function.val)
             THEN Apply(FunctionCall(main_function.val, <<>>,
                                     St, <<[Top EXCEPT !.phase = "main"]>>))
             ELSE Apply([St EXCEPT !.ctrl = [mode |-> "done", arg |-> None]])
       \/ /\ ctrl.mode = "ret" /\ Top.phase = "main"
          /\ Apply([St EXCEPT !.ctrl = [mode |-> "done", arg |-> None]])
       \/ /\ ctrl.mode = "raise" /\ Top.phase = "statements"
          /\ Apply([St EXCEPT !.ctrl = [mode |-> "crash", arg |-> ctrl.arg]])
       \/ /\ ctrl.mode = "raise" /\ Top.phase = "main"
          /\ IF ctrl.arg.type = "NameError"
             THEN Apply([St EXCEPT !.ctrl = [mode |-> "done", arg |-> None]])
             ELSE Apply([St EXCEPT !.ctrl = [mode |-> "crash", arg |-> ctrl.arg]])

(* An exception leaves a handler that has no try around the call it made.   *)
PlainFrames ==
    {"visit_block", "visit_call", "visit_vardecl", "visit_return", "visit_binop",
     "visit_forloop", "visit_pipe", "execute_modified_step", "visit_propertyaccess",
     "visit_methodcall", "class_call", "visit_assignment", "visit_arrayliteral",
     "visit_arrayaccess", "visit_instancevardecl"}

propagate ==
    /\ ctrl.mode = "raise" /\ Len(stack) > 0 /\ Top.f \in PlainFrames
    /\ Apply([St EXCEPT !.stack = Rest])

(* Python's RecursionError, at the model's stack bound.                     *)
recursion_error ==
    /\ ctrl.mode = "exec" /\ Len(stack) > MaxStack
    /\ Apply([St EXCEPT !.ctrl = RaiseNew("RecursionError",
                                   <<"maximum recursion depth exceeded">>)])

----------------------------------------------------------------------------
(* Statements and expressions.                                              *)

visit_integer ==
    /\ Executing("Integer")
    /\ Apply([St EXCEPT !.ctrl = Ret(IntV(ctrl.arg.value))])

visit_float ==
    /\ Executing("Float")
    /\ Apply([St EXCEPT !.ctrl = Ret(FloatV(ctrl.arg.value))])

visit_string ==
    /\ Executing("String")
    /\ Apply([St EXCEPT !.ctrl = Ret(StrV(ctrl.arg.value))])

visit_variable ==
    /\ Executing("Variable")
    /\ LET r == get(envs, environment, ctrl.arg.name) IN
       Apply([St EXCEPT !.ctrl = IF r.ok THEN Ret(r.val) ELSE Raise(r.exc)])

visit_funcdecl ==
    /\ Executing("FuncDecl")
    /\ Apply([St EXCEPT !.envs = define(envs, environment, ctrl.arg.name,
                                        GGLangFunction(ctrl.arg, environment)),
                        !.ctrl = Ret(None)])

visit_vardecl ==
    \/ /\ Executing("VarDecl")
       /\ IF ctrl.arg.value = NoNode
          THEN Apply([St EXCEPT !.envs = define(envs, environment, ctrl.arg.name,
                                                UNINITIALIZED),
                                !.ctrl = Ret(None)])
          ELSE Apply([St EXCEPT !.stack = Append(stack, [f |-> "visit_vardecl",
                                                         node |-> ctrl.arg]),
                                !.ctrl = Exec(ctrl.arg.value)])
    \/ /\ Resuming("visit_vardecl")
       /\ LET node == Top.node
              value == ctrl.arg
          IN  IF /\ node.var_type \in {"int", "float", "str", "bool"}
                 /\ ~isinstance(value, node.var_type)
              THEN Apply([St EXCEPT !.stack = Rest,
                            !.ctrl = RaiseNew("TypeError",
                                <<"Cannot assign value of type ", value.t,
                                  " to variable '", node.name, "' of type '",
                                  node.var_type, "'">>)])
              ELSE Apply([St EXCEPT !.stack = Rest,
                            !.envs = define(envs, environment, node.name, value),
                            !.ctrl = Ret(None)])

visit_return ==
    \/ /\ Executing("Return")
       /\ Apply([St EXCEPT !.stack = Append(stack, [f |-> "visit_return"]),
                           !.ctrl = Exec(ctrl.arg.value)])
    \/ /\ Resuming("visit_return")
       /\ Apply([St EXCEPT !.stack = Rest, !.ctrl = Raise(ReturnValue(ctrl.arg))])

(* The Python operator visit_binop applies.  Not modelled: float * and /,   *)
(* ordering of texts, text repetition, list concatenation.                  *)
BinOpModelled(op, l, r) ==
    /\ ~(op \in {"*", "/"} /\ IsNumeric(l) /\ IsNumeric(r) /\ "float" \in {l.t, r.t})
    /\ ~(op \in {">", "<", ">=", "<="} /\ l.t = "str" /\ r.t = "str")
    /\ ~(op = "*" /\ {l.t, r.t} \in {{"str", "int"}, {"str", "bool"}, {"list", "int"}})
    /\ ~(op = "+" /\ l.t = "list" /\ r.t = "list")

OperandError(op, l, r) ==
    Err("TypeError", <<"unsupported operand type(s) for ", op, ": '", l.t,
                       "' and '", r.t, "'">>)

BinOpResult(op, l, r, ls) ==
    CASE op = "==" -> Ok(BoolV(PyEq(l, r, ls)))
      [] op = "!=" -> Ok(BoolV(~PyEq(l, r, ls)))
      [] op \in {">", "<", ">=", "<="} ->
            IF IsNumeric(l) /\ IsNumeric(r)
            THEN Ok(BoolV(CASE op = ">" -> Tenths(l) > Tenths(r)
                            [] op = "<" -> Tenths(l) < Tenths(r)
                            [] op = ">=" -> Tenths(l) >= Tenths(r)
                            [] op = "<=" -> Tenths(l) <= Tenths(r)))
            ELSE OperandError(op, l, r)
      [] op \in {"+", "-"} ->
            IF IsIntLike(l) /\ IsIntLike(r)
            THEN Ok(IntV(IF op = "+" THEN IntOf(l) + IntOf(r) ELSE IntOf(l) - IntOf(r)))
            ELSE IF IsNumeric(l) /\ IsNumeric(r)
            THEN Ok(FloatV(IF op = "+" THEN Tenths(l) + Tenths(r)
                           ELSE Tenths(l) - Tenths(r)))
            ELSE IF op = "+" /\ l.t = "str" /\ r.t = "str"
            THEN Ok(StrV(l.v \o r.v))
            ELSE OperandError(op, l, r)
      [] op = "*" ->
            IF IsIntLike(l) /\ IsIntLike(r) THEN Ok(IntV(IntOf(l) * IntOf(r)))
            ELSE OperandError(op, l, r)
      [] op = "/" ->
            IF IsIntLike(l) /\ IsIntLike(r)
            THEN IF IntOf(r) = 0
                 THEN Err("ZeroDivisionError", <<"integer division or modulo by zero">>)
                 ELSE Ok(IntV(FloorDiv(IntOf(l), IntOf(r))))
            ELSE OperandError(op, l, r)
      [] OTHER -> Err("RuntimeError", <<"Unknown operator: ", op>>)

visit_binop ==
    \/ /\ Executing("BinOp")
       /\ Apply([St EXCEPT !.stack = Append(stack, [f |-> "visit_binop", node |-> ctrl.arg,
                                                     phase |-> "left", left |-> None]),
                           !.ctrl = Exec(ctrl.arg.left)])
    \/ /\ Resuming("visit_binop") /\ Top.phase = "left"
       /\ Apply([St EXCEPT !.stack[Len(stack)] = [Top EXCEPT !.phase = "right",
                                                              !.left = ctrl.arg],
                           !.ctrl = Exec(Top.node.right)])
    \/ /\ Resuming("visit_binop") /\ Top.phase = "right"
       /\ BinOpModelled(Top.node.op, Top.left, ctrl.arg)
       /\ LET r == BinOpResult(Top.node.op, Top.left, ctrl.arg, lists) IN
          Apply([St EXCEPT !.stack = Rest,
                           !.ctrl = IF r.ok THEN Ret(r.val) ELSE Raise(r.exc)])

----------------------------------------------------------------------------
(* Classes, instances and calls.                                            *)

(* A variant that does not walk up to the superclass.                       *)
find_method_own(klass, name) ==
    IF name \in DOMAIN klass.methods THEN klass.methods[name] ELSE None

RECURSIVE find_method(_, _)
find_method(klass, name) ==
    IF name \in DOMAIN klass.methods THEN klass.methods[name]
    ELSE IF klass.superclass # None THEN find_method(klass.superclass, name)
    ELSE None

(* GGLangFunction.bind: a new environment with this (and super) around the  *)
(* closure.  Yields the bound function and the environments.                *)
BoundThis(instance) == instance

bind(fn, instance, es, insts) ==
    LET e == Len(es) + 1
        klass == insts[instance.ref].klass
        es1 == define(Append(es, Environment(fn.closure)), e, "this", BoundThis(instance))
        es2 == IF klass.superclass # None
               THEN define(es1, e, "super", GGLangSuper(instance, klass.superclass))
               ELSE es1
    IN  [fn |-> GGLangFunction(fn.declaration, e), envs |-> es2]

(* GGLangClass.__call__ *)
ClassCall(klass, args, s, base) ==
    LET r == Len(s.instances) + 1
        instance == GGLangInstance(r)
        insts == Append(s.instances, [klass |-> klass, fields |-> EmptyMap])
        initializer == find_method(klass, "initialize")
    IN  IF initializer # None
        THEN LET b == bind(initializer, instance, s.envs, insts) IN
             FunctionCall(b.fn, args, [s EXCEPT !.instances = insts, !.envs = b.envs],
                          Append(base, [f |-> "class_call", instance |-> instance]))
        ELSE [s EXCEPT !.instances = insts, !.stack = base, !.ctrl = Ret(instance)]

(* A call of a class that yields what the initializer returned.             *)
class_call_returned ==
    /\ Resuming("class_call")
    /\ Apply([St EXCEPT !.stack = Rest, !.ctrl = Ret(ctrl.arg)])

class_call ==
    /\ Resuming("class_call")
    /\ Apply([St EXCEPT !.stack = Rest, !.ctrl = Ret(Top.instance)])

(* visit_call on a native built-in: the call with the evaluated arguments. *)
NativeApply(name, args, s, base) ==
    LET r == NativeCall(name, args, s.lists, s.out) IN
    [s EXCEPT !.stack = base, !.lists = r.lists, !.out = r.out,
              !.ctrl = IF r.ok THEN Ret(r.val) ELSE Raise(r.exc)]

(* The dispatch at the end of visit_call.                                   *)
CallDispatch(callee, args, s, base) ==
    CASE callee.t = "GGLangFunction" -> FunctionCall(callee, args, s, base)
      [] callee.t = "GGLangClass" -> ClassCall(callee, args, s, base)
      [] callee.t = "builtin" -> NativeApply(callee.name, args, s, base)
      [] OTHER -> [s EXCEPT !.stack = base,
                            !.ctrl = RaiseNew("TypeError", <<"Object is not callable.">>)]

CallModelled(callee, args) == callee.t = "builtin" => NativeModelled(callee.name, args)

visit_call ==
    \/ /\ Executing("Call")
       /\ Apply([St EXCEPT !.stack = Append(stack, [f |-> "visit_call", node |-> ctrl.arg,
                                                     phase |-> "callee", callee |-> None,
                                                     args |-> <<>>]),
                           !.ctrl = Exec(ctrl.arg.callee)])
    \/ /\ Resuming("visit_call")
       /\ LET callee == IF Top.phase = "callee" THEN ctrl.arg ELSE Top.callee
              args == IF Top.phase = "callee" THEN <<>> ELSE Append(Top.args, ctrl.arg)
          IN  IF Len(args) < Len(Top.node.args)
              THEN Apply([St EXCEPT !.stack[Len(stack)] =
                                        [Top EXCEPT !.phase = "args", !.callee = callee,
                                                    !.args = args],
                                    !.ctrl = Exec(Top.node.args[Len(args) + 1])])
              ELSE /\ CallModelled(callee, args)
                   /\ Apply(CallDispatch(callee, args, St, Rest))

(* "except Exception": every exception class of the model, ReturnValue      *)
(* included (class ReturnValue(Exception)), derives from Exception.         *)
ExceptionClasses ==
    {"NameError", "TypeError", "ValueError", "AssertionError", "IndexError",
     "ZeroDivisionError", "RuntimeError", "RecursionError", "ReturnValue"}

(* The name of the exception's class in place of its message.               *)
ExceptionClassName(exc, ls) == <<exc.type>>

(* str(e) *)
ExceptionText(exc, ls) ==
    IF exc.type = "ReturnValue" THEN PyStr(exc.value, ls) ELSE exc.msg

visit_trycatch ==
    \/ /\ Executing("TryCatch")
       /\ Apply([St EXCEPT !.stack = Append(stack, [f |-> "visit_trycatch",
                                                     node |-> ctrl.arg]),
                           !.ctrl = Exec(ctrl.arg.try_block)])
    \/ /\ Resuming("visit_trycatch")
       /\ Apply([St EXCEPT !.stack = Rest, !.ctrl = Ret(None)])
    \/ /\ Unwinding("visit_trycatch")
       /\ IF ctrl.arg.type \in ExceptionClasses
          THEN LET catch_env == Len(envs) + 1 IN
               Apply([St EXCEPT
                   !.envs = define(Append(envs, Environment(environment)), catch_env,
                                   Top.node.exception_var,
                                   StrV(ExceptionText(ctrl.arg, lists))),
                   !.environment = catch_env,
                   !.stack = Rest \o BlockFrames(Top.node.catch_block, catch_env, environment),
                   !.ctrl = Ret(None)])
          ELSE Apply([St EXCEPT !.stack = Rest])

(* list(iterable) *)
ListOf(v, ls) ==
    CASE v.t = "list" -> Ok(ls[v.ref])
      [] v.t = "str" -> Ok([i \in 1..Len(v.v) |-> StrV(<<v.v[i]>>)])
      [] OTHER -> Err("TypeError", <<"'", v.t, "' object is not iterable">>)

(* A variant that walks the list itself, not a copy.                         *)
ForItemsLive(frame, ls) ==
    IF frame.iterable.t = "list" THEN ls[frame.iterable.ref] ELSE frame.items

(* The items the loop walks: the copy taken when the iterable was           *)
(* evaluated.                                                               *)
ForItems(frame, ls) == frame.items

visit_forloop ==
    \/ /\ Executing("ForLoop")
       /\ Apply([St EXCEPT !.stack = Append(stack, [f |-> "visit_forloop", node |-> ctrl.arg,
                                                     phase |-> "iterable", iterable |-> None,
                                                     items |-> <<>>, i |-> 0]),
                           !.ctrl = Exec(ctrl.arg.iterable)])
    \/ /\ Resuming("visit_forloop") /\ Top.phase = "iterable"
       /\ LET r == ListOf(ctrl.arg, lists) IN
          IF r.ok
          THEN Apply([St EXCEPT !.stack[Len(stack)] =
                                    [Top EXCEPT !.phase = "loop", !.iterable = ctrl.arg,
                                                !.items = r.val],
                                !.ctrl = Ret(None)])
          ELSE Apply([St EXCEPT !.stack = Rest, !.ctrl = Raise(r.exc)])
    \/ /\ Resuming("visit_forloop") /\ Top.phase = "loop"
       /\ LET items == ForItems(Top, lists)
              loop_env == Len(envs) + 1
          IN  IF Top.i < Len(items)
              THEN Apply([St EXCEPT
                      !.envs = define(Append(envs, Environment(environment)), loop_env,
                                      Top.node.variable, items[Top.i + 1]),
                      !.environment = loop_env,
                      !.stack = Append(Rest, [Top EXCEPT !.i = Top.i + 1])
                                \o BlockFrames(Top.node.body, loop_env, environment),
                      !.ctrl = Ret(None)])
              ELSE Apply([St EXCEPT !.stack = Rest, !.ctrl = Ret(None)])

----------------------------------------------------------------------------
(* The pipeline engine.                                                     *)

(* A variant that binds the placeholder in the environment the pipe is      *)
(* evaluated in.                                                            *)
PlaceholderInEnclosing(pipe_env, s) == s.environment

(* The environment execute_simple_step binds the placeholder in.            *)
PlaceholderHome(pipe_env, s) == pipe_env

(* execute_simple_step up to self.execute(expression_node).                 *)
SimpleStep(expression_node, input_value, s, base) ==
    LET pipe_env == Len(s.envs) + 1 IN
    [s EXCEPT !.envs = define(Append(s.envs, Environment(s.environment)),
                              PlaceholderHome(pipe_env, s), "_", input_value),
              !.environment = pipe_env,
              !.stack = Append(base, [f |-> "execute_simple_step",
                                      original_env |-> s.environment,
                                      environment |-> pipe_env]),
              !.ctrl = Exec(expression_node)]

(* finally: self.environment = original_env; return result.                 *)
execute_simple_step ==
    /\ ctrl.mode \in {"ret", "raise"} /\ Len(stack) > 0 /\ Top.f = "execute_simple_step"
    /\ Apply([St EXCEPT !.environment = RestoredEnv(Top, ctrl.mode), !.stack = Rest])

IsConditional(modifiers, j) == modifiers[j].kind = "ConditionalModifier"

(* The next ConditionalModifier after position m; 0: none.                  *)
NextCondition(modifiers, m) ==
    LET later == {j \in (m + 1)..Len(modifiers) : IsConditional(modifiers, j)} IN
    IF later = {} THEN 0 ELSE CHOOSE j \in later : \A k \in later : j <= k

(* A variant that looks for the repetition at the first modifier only.      *)
RepetitionCountOfFirstModifier(modifiers) ==
    IF Len(modifiers) > 0 /\ modifiers[1].kind = "RepetitionModifier"
    THEN modifiers[1].count
    ELSE 1

(* The count of the first RepetitionModifier, else 1.                       *)
RepetitionCount(modifiers) ==
    LET reps == {j \in 1..Len(modifiers) : modifiers[j].kind = "RepetitionModifier"} IN
    IF reps = {} THEN 1
    ELSE modifiers[CHOOSE j \in reps : \A k \in reps : j <= k].count

(* The value a condition is evaluated on.                                   *)
ConditionInput(frame) == frame.current_value

(* execute_modified_step from the position the frame holds: the next        *)
(* condition, then the repetitions, then the result.                        *)
ModifiedAdvance(frame, s, base) ==
    LET modifiers == frame.node.modifiers
        j == IF frame.phase = "conditions" THEN NextCondition(modifiers, frame.m) ELSE 0
    IN  IF j # 0
        THEN SimpleStep(modifiers[j].condition, ConditionInput(frame), s,
                        Append(base, [frame EXCEPT !.m = j]))
        ELSE IF frame.k < RepetitionCount(modifiers)
        THEN SimpleStep(frame.node.expression, frame.current_value, s,
                        Append(base, [frame EXCEPT !.phase = "repetition",
                                                   !.k = frame.k + 1]))
        ELSE [s EXCEPT !.stack = base, !.ctrl = Ret(frame.current_value)]

ModifiedStep(modified_expr_node, input_value, s, base) ==
    ModifiedAdvance([f |-> "execute_modified_step", node |-> modified_expr_node,
                     current_value |-> input_value, phase |-> "conditions",
                     m |-> 0, k |-> 0], s, base)

execute_modified_step ==
    \/ /\ Resuming("execute_modified_step") /\ Top.phase = "conditions"
       /\ IF ~Truthy(ctrl.arg, lists)
          THEN Apply([St EXCEPT !.stack = Rest, !.ctrl = Ret(Top.current_value)])
          ELSE Apply(ModifiedAdvance(Top, St, Rest))
    \/ /\ Resuming("execute_modified_step") /\ Top.phase = "repetition"
       /\ Apply(ModifiedAdvance([Top EXCEPT !.current_value = ctrl.arg], St, Rest))

execute_pipe_step(step_node, input_value, s, base) ==
    CASE step_node.kind = "ModifiedExpression" ->
            ModifiedStep(step_node, input_value, s, base)
      [] step_node.kind = "TypedPipeTarget" ->
            [s EXCEPT !.envs = define(s.envs, s.environment, step_node.name, input_value),
                      !.stack = base, !.ctrl = Ret(input_value)]
      [] OTHER -> SimpleStep(step_node, input_value, s, base)

(* The position of the first placeholder argument; 0: none.                 *)
PlaceholderIndex(call_node) ==
    LET at == {i \in 1..Len(call_node.args) :
                   call_node.args[i].kind = "Variable" /\ call_node.args[i].name = "_"}
    IN  IF at = {} THEN 0 ELSE CHOOSE i \in at : \A j \in at : i <= j

(* coercion_func(left_val), inside "except (ValueError, TypeError)".        *)
Coerce(coercion_func, left_val, type_name, s) ==
    LET failed == Exception("TypeError",
                      <<"Could not coerce value '">> \o PyStr(left_val, s.lists)
                      \o <<"' to type '", type_name, "'.">>)
    IN  IF coercion_func.t = "builtin"
        THEN LET r == NativeCall(coercion_func.name, <<left_val>>, s.lists, s.out) IN
             IF ~r.ok /\ r.exc.type \in {"ValueError", "TypeError"}
             THEN [r EXCEPT !.exc = failed]
             ELSE r
        ELSE NativeErr("TypeError", failed.msg, s.lists, s.out)

(* The value visit_pipe hands to the step after a coercion.                 *)
CoercedInput(coerced_val, left_val) == coerced_val

(* The parameter whose declared type the coercion pipe reads.               *)
CoercionParam(callee, placeholder_index) == callee.declaration.params[placeholder_index]

visit_pipe ==
    \/ /\ Executing("Pipe")
       /\ Apply([St EXCEPT !.stack = Append(stack, [f |-> "visit_pipe", node |-> ctrl.arg,
                                                     phase |-> "left", left_val |-> None]),
                           !.ctrl = Exec(ctrl.arg.left)])
    \/ /\ Resuming("visit_pipe") /\ Top.phase = "left"
       /\ LET node == Top.node
              left_val == ctrl.arg
          IN  IF node.op # "~~>"
              THEN Apply(execute_pipe_step(node.right, left_val, St, Rest))
              ELSE IF node.right.kind # "Call"
              THEN Apply([St EXCEPT !.stack = Rest,
                           !.ctrl = RaiseNew("TypeError",
                               <<"Coercion pipe '~~>' must be followed by a function call.">>)])
              ELSE IF PlaceholderIndex(node.right) = 0
              THEN Apply(execute_pipe_step(node.right, left_val, St, Rest))
              ELSE Apply([St EXCEPT !.stack[Len(stack)] =
                                        [Top EXCEPT !.phase = "callee", !.left_val = left_val],
                                    !.ctrl = Exec(node.right.callee)])
    \/ /\ Resuming("visit_pipe") /\ Top.phase = "callee"
       /\ LET node == Top.node
              callee == ctrl.arg
              placeholder_index == PlaceholderIndex(node.right)
          IN  IF callee.t # "GGLangFunction"
              THEN Apply([St EXCEPT !.stack = Rest,
                           !.ctrl = RaiseNew("TypeError",
                               <<"Coercion pipe '~~>' is currently only supported for user-defined functions.">>)])
              ELSE IF placeholder_index > Len(callee.declaration.params)
              THEN Apply([St EXCEPT !.stack = Rest,
                           !.ctrl = RaiseNew("TypeError",
                               <<"Too many arguments for function '",
                                 callee.declaration.name, "'.">>)])
              ELSE LET type_name == CoercionParam(callee, placeholder_index).param_type.name
                       coercion_func == get(envs, environment, type_name)
                   IN  IF ~coercion_func.ok
                       THEN Apply([St EXCEPT !.stack = Rest,
                                    !.ctrl = RaiseNew("TypeError",
                                        <<"Unknown type '", type_name, "' for coercion.">>)])
                       ELSE LET r == Coerce(coercion_func.val, Top.left_val, type_name, St) IN
                            IF ~r.ok
                            THEN Apply([St EXCEPT !.stack = Rest, !.lists = r.lists,
                                                  !.out = r.out, !.ctrl = Raise(r.exc)])
                            ELSE Apply(execute_pipe_step(node.right,
                                           CoercedInput(r.val, Top.left_val),
                                           [St EXCEPT !.lists = r.lists, !.out = r.out],
                                           Rest))

----------------------------------------------------------------------------
(* Class declarations, properties, methods, fields.                         *)

(* The method table: the FuncDecl statements of the body, a later one        *)
(* replacing an earlier one of the same name.                               *)
MethodTable(body, closure) ==
    LET decls == {i \in 1..Len(body.statements) : body.statements[i].kind = "FuncDecl"}
        names == {body.statements[i].name : i \in decls}
        last(n) == CHOOSE i \in decls :
                       /\ body.statements[i].name = n
                       /\ \A j \in decls : body.statements[j].name = n => j <= i
    IN  [n \in names |-> GGLangFunction(body.statements[last(n)], closure)]

visit_classdecl ==
    /\ Executing("ClassDecl")
    /\ LET node == ctrl.arg
           superclass == IF node.superclass = "" THEN Ok(None)
                         ELSE get(envs, environment, node.superclass)
       IN  IF ~superclass.ok
           THEN Apply([St EXCEPT !.ctrl = Raise(superclass.exc)])
           ELSE IF node.superclass # "" /\ superclass.val.t # "GGLangClass"
           THEN Apply([St EXCEPT !.ctrl = RaiseNew("TypeError",
                           <<"Superclass must be a class. Got ", superclass.val.t, ".">>)])
           ELSE Apply([St EXCEPT
                   !.envs = define(envs, environment, node.name,
                                   GGLangClass(node.name, superclass.val,
                                               MethodTable(node.body, environment))),
                   !.ctrl = Ret(None)])

(* GGLangInstance.get: the field, else the method bound to the instance.    *)
InstanceGet(instance, name, s) ==
    LET obj == s.instances[instance.ref]
        method == find_method(obj.klass, name)
    IN  IF name \in DOMAIN obj.fields
        THEN [s EXCEPT !.ctrl = Ret(obj.fields[name])]
        ELSE IF method # None
        THEN LET b == bind(method, instance, s.envs, s.instances) IN
             [s EXCEPT !.envs = b.envs, !.ctrl = Ret(b.fn)]
        ELSE [s EXCEPT !.ctrl = RaiseNew("NameError",
                                    <<"Undefined property '", name, "'.">>)]

(* GGLangSuper.get *)
SuperGet(super, name, s) ==
    LET method == find_method(super.superclass, name) IN
    IF method # None
    THEN LET b == bind(method, super.instance, s.envs, s.instances) IN
         [s EXCEPT !.envs = b.envs, !.ctrl = Ret(b.fn)]
    ELSE [s EXCEPT !.ctrl = RaiseNew("NameError",
                                <<"Undefined method '", name, "' on super.">>)]

(* Not modelled: the upper and lower methods of a text.                     *)
PropertyModelled(obj, name) == ~(obj.t = "str" /\ name \in {"upper", "lower"})

visit_propertyaccess ==
    \/ /\ Executing("PropertyAccess")
       /\ Apply([St EXCEPT !.stack = Append(stack, [f |-> "visit_propertyaccess",
                                                     node |-> ctrl.arg]),
                           !.ctrl = Exec(ctrl.arg.object)])
    \/ /\ Resuming("visit_propertyaccess")
       /\ PropertyModelled(ctrl.arg, Top.node.name)
       /\ LET obj == ctrl.arg
              s == [St EXCEPT !.stack = Rest]
          IN  CASE obj.t = "GGLangInstance" -> Apply(InstanceGet(obj, Top.node.name, s))
                [] obj.t = "GGLangSuper" -> Apply(SuperGet(obj, Top.node.name, s))
                [] OTHER -> Apply([s EXCEPT !.ctrl = RaiseNew("TypeError",
                                      <<"Object of type ", obj.t, " has no property '",
                                        Top.node.name, "'.">>)])

visit_super ==
    /\ Executing("Super")
    /\ LET r == get(envs, environment, "super") IN
       Apply([St EXCEPT !.ctrl = IF r.ok THEN Ret(r.val) ELSE Raise(r.exc)])

visit_instancevar ==
    /\ Executing("InstanceVar")
    /\ LET instance == get(envs, environment, "this") IN
       IF ~instance.ok THEN Apply([St EXCEPT !.ctrl = Raise(instance.exc)])
       ELSE /\ instance.val.t = "GGLangInstance"
            /\ Apply(InstanceGet(instance.val, ctrl.arg.name, St))

(* GGLangInstance.set *)
InstanceSet(instance, name, value, insts) ==
    [insts EXCEPT ![instance.ref].fields = Put(@, name, value)]

(* "type_name in type_map" with a Type node for type_name: a dataclass      *)
(* instance is not hashable.                                                *)
UnhashableType == Exception("TypeError", <<"unhashable type: 'Type'">>)

visit_instancevardecl ==
    \/ /\ Executing("InstanceVarDecl")
       /\ LET node == ctrl.arg
              instance == get(envs, environment, "this")
          IN  IF ~instance.ok THEN Apply([St EXCEPT !.ctrl = Raise(instance.exc)])
              ELSE IF instance.val.t # "GGLangInstance"
              THEN Apply([St EXCEPT !.ctrl = RaiseNew("TypeError",
                              <<"Instance variable declaration must be inside a method.">>)])
              ELSE IF node.value = NoNode /\ node.type_node
              THEN Apply([St EXCEPT !.ctrl = Raise(UnhashableType)])
              ELSE IF node.value = NoNode
              THEN Apply([St EXCEPT
                      !.instances = InstanceSet(instance.val, node.name, UNINITIALIZED,
                                                instances),
                      !.ctrl = Ret(None)])
              ELSE Apply([St EXCEPT
                      !.stack = Append(stack, [f |-> "visit_instancevardecl", node |-> node,
                                               instance |-> instance.val]),
                      !.ctrl = Exec(node.value)])
    \/ /\ Resuming("visit_instancevardecl")
       /\ LET node == Top.node
              value == ctrl.arg
          IN  IF node.type_node
              THEN Apply([St EXCEPT !.stack = Rest, !.ctrl = Raise(UnhashableType)])
              ELSE IF /\ node.var_type \in {"int", "float", "str", "bool"}
                 /\ value # UNINITIALIZED
                 /\ ~isinstance(value, node.var_type)
              THEN Apply([St EXCEPT !.stack = Rest,
                            !.ctrl = RaiseNew("TypeError",
                                <<"Cannot assign value of type ", value.t,
                                  " to instance variable '@", node.name, "' of type '",
                                  node.var_type, "'">>)])
              ELSE Apply([St EXCEPT !.stack = Rest,
                            !.instances = InstanceSet(Top.instance, node.name, value,
                                                      instances),
                            !.ctrl = Ret(None)])

(* callable(func), for the values of the model.                             *)
callable(v) == v.t \in {"GGLangFunction", "GGLangClass", "builtin"}

(* func called with the unpacked args, for a class: Python binds the        *)
(* arguments of the call to the                                             *)
(* parameters interpreter and args of GGLangClass.__call__.                 *)
ClassApply(klass, args, s, base) ==
    LET failed(msg) ==
            [s EXCEPT !.stack = base,
                      !.ctrl = RaiseNew("TypeError",
                                        <<"GGLangClass.__call__() ">> \o msg)]
    IN  CASE Len(args) = 0 ->
                failed(<<"missing 2 required positional arguments: 'interpreter' and 'args'">>)
          [] Len(args) = 1 ->
                failed(<<"missing 1 required positional argument: 'args'">>)
          [] Len(args) = 2 ->
                [s EXCEPT !.instances = Append(s.instances,
                                               [klass |-> klass, fields |-> EmptyMap]),
                          !.stack = base,
                          !.ctrl = Ret(GGLangInstance(Len(s.instances) + 1))]
          [] OTHER ->
                failed(<<"takes 3 positional arguments but ">> \o IntStr(Len(args) + 1)
                       \o <<" were given">>)

(* Not modelled: a class with an initializer that visit_methodcall calls    *)
(* with two arguments, the second taking the place of the argument list.    *)
MethodCallModelled(func, args) ==
    /\ func.t = "GGLangClass" =>
            (Len(args) = 2 => find_method(func, "initialize") = None)
    /\ func.t = "builtin" => NativeModelled(func.name, args)

visit_methodcall ==
    \/ /\ Executing("MethodCall")
       /\ Apply([St EXCEPT
              !.stack = stack \o << [f |-> "visit_methodcall", node |-> ctrl.arg,
                                     phase |-> "func", func |-> None, args |-> <<>>],
                                    [f |-> "visit_propertyaccess",
                                     node |-> ctrl.arg.callee] >>,
              !.ctrl = Exec(ctrl.arg.callee.object)])
    \/ /\ Resuming("visit_methodcall")
       /\ LET func == IF Top.phase = "func" THEN ctrl.arg ELSE Top.func
              args == IF Top.phase = "func" THEN <<>> ELSE Append(Top.args, ctrl.arg)
          IN  IF ~callable(func)
              THEN Apply([St EXCEPT !.stack = Rest,
                            !.ctrl = RaiseNew("TypeError",
                                <<"'", Top.node.callee.name,
                                  "' is not a function or method.">>)])
              ELSE IF Len(args) < Len(Top.node.args)
              THEN Apply([St EXCEPT !.stack[Len(stack)] =
                                        [Top EXCEPT !.phase = "args", !.func = func,
                                                    !.args = args],
                                    !.ctrl = Exec(Top.node.args[Len(args) + 1])])
              ELSE /\ MethodCallModelled(func, args)
                   /\ CASE func.t = "GGLangFunction" ->
                                Apply(FunctionCall(func, args, St, Rest))
                        [] func.t = "GGLangClass" ->
                                Apply(ClassApply(func, args, St, Rest))
                        [] OTHER -> Apply(NativeApply(func.name, args, St, Rest))

----------------------------------------------------------------------------
(* Lists and assignment.                                                    *)

visit_arrayliteral ==
    \/ /\ Executing("ArrayLiteral")
       /\ IF Len(ctrl.arg.elements) = 0
          THEN Apply([St EXCEPT !.lists = Append(lists, <<>>),
                                !.ctrl = Ret(ListV(Len(lists) + 1))])
          ELSE Apply([St EXCEPT !.stack = Append(stack, [f |-> "visit_arrayliteral",
                                                         node |-> ctrl.arg,
                                                         elements |-> <<>>]),
                                !.ctrl = Exec(ctrl.arg.elements[1])])
    \/ /\ Resuming("visit_arrayliteral")
       /\ LET elements == Append(Top.elements, ctrl.arg) IN
          IF Len(elements) < Len(Top.node.elements)
          THEN Apply([St EXCEPT !.stack[Len(stack)].elements = elements,
                                !.ctrl = Exec(Top.node.elements[Len(elements) + 1])])
          ELSE Apply([St EXCEPT !.stack = Rest,
                                !.lists = Append(lists, elements),
                                !.ctrl = Ret(ListV(Len(lists) + 1))])

(* A Python list index: negative keys count from the end; 0: out of range.  *)
ListPosition(l, key) ==
    LET i == IF IntOf(key) < 0 THEN IntOf(key) + Len(l) ELSE IntOf(key) IN
    IF i < 0 \/ i >= Len(l) THEN 0 ELSE i + 1

(* Not modelled: dictionaries, and subscripts of texts.                     *)
SubscriptModelled(obj) == obj.t # "dict" /\ obj.t # "str"

visit_arrayaccess ==
    \/ /\ Executing("ArrayAccess")
       /\ Apply([St EXCEPT !.stack = Append(stack, [f |-> "visit_arrayaccess",
                                                     node |-> ctrl.arg, phase |-> "array",
                                                     obj |-> None]),
                           !.ctrl = Exec(ctrl.arg.array)])
    \/ /\ Resuming("visit_arrayaccess") /\ Top.phase = "array"
       /\ Apply([St EXCEPT !.stack[Len(stack)] = [Top EXCEPT !.phase = "index",
                                                              !.obj = ctrl.arg],
                           !.ctrl = Exec(Top.node.index)])
    \/ /\ Resuming("visit_arrayaccess") /\ Top.phase = "index"
       /\ SubscriptModelled(Top.obj)
       /\ LET obj == Top.obj
              key == ctrl.arg
          IN  IF obj.t # "list"
              THEN Apply([St EXCEPT !.stack = Rest,
                            !.ctrl = RaiseNew("TypeError",
                                <<"Object of type ", obj.t,
                                  " does not support subscripting.">>)])
              ELSE IF ~IsIntLike(key)
              THEN Apply([St EXCEPT !.stack = Rest,
                            !.ctrl = RaiseNew("TypeError",
                                              <<"List index must be an integer.">>)])
              ELSE IF ListPosition(lists[obj.ref], key) = 0
              THEN Apply([St EXCEPT !.stack = Rest,
                            !.ctrl = RaiseNew("IndexError", <<"list index out of range">>)])
              ELSE Apply([St EXCEPT !.stack = Rest,
                            !.ctrl = Ret(lists[obj.ref][ListPosition(lists[obj.ref], key)])])

(* Not modelled: assignment to a property (obj.name = value).               *)
visit_assignment ==
    \/ /\ Executing("Assignment")
       /\ ctrl.arg.target.kind # "PropertyAccess"
       /\ Apply([St EXCEPT !.stack = Append(stack, [f |-> "visit_assignment",
                                                     node |-> ctrl.arg, phase |-> "value",
                                                     value |-> None, obj |-> None]),
                           !.ctrl = Exec(ctrl.arg.value)])
    \/ /\ Resuming("visit_assignment") /\ Top.phase = "value"
       /\ LET target == Top.node.target
              value == ctrl.arg
          IN  CASE target.kind = "Variable" ->
                    LET r == assign(envs, environment, target.name, value) IN
                    Apply([St EXCEPT !.stack = Rest, !.envs = r.envs,
                                     !.ctrl = IF r.ok THEN Ret(None) ELSE Raise(r.exc)])
                [] target.kind = "InstanceVar" ->
                    LET instance == get(envs, environment, "this") IN
                    IF ~instance.ok
                    THEN Apply([St EXCEPT !.stack = Rest, !.ctrl = Raise(instance.exc)])
                    ELSE /\ instance.val.t = "GGLangInstance"
                         /\ Apply([St EXCEPT !.stack = Rest,
                                     !.instances = InstanceSet(instance.val, target.name,
                                                               value, instances),
                                     !.ctrl = Ret(None)])
                [] target.kind = "ArrayAccess" ->
                    Apply([St EXCEPT !.stack[Len(stack)] = [Top EXCEPT !.phase = "array",
                                                                       !.value = value],
                                     !.ctrl = Exec(target.array)])
                [] OTHER ->
                    Apply([St EXCEPT !.stack = Rest,
                             !.ctrl = RaiseNew("TypeError",
                                 <<"Invalid assignment target: ", target.kind>>)])
    \/ /\ Resuming("visit_assignment") /\ Top.phase = "array"
       /\ Apply([St EXCEPT !.stack[Len(stack)] = [Top EXCEPT !.phase = "index",
                                                              !.obj = ctrl.arg],
                           !.ctrl = Exec(Top.node.target.index)])
    \/ /\ Resuming("visit_assignment") /\ Top.phase = "index"
       /\ SubscriptModelled(Top.obj)
       /\ LET obj == Top.obj
              key == ctrl.arg
          IN  IF obj.t # "list"
              THEN Apply([St EXCEPT !.stack = Rest,
                            !.ctrl = RaiseNew("TypeError",
                                <<"Object of type ", obj.t,
                                  " does not support subscript assignment.">>)])
              ELSE IF ~IsIntLike(key)
              THEN Apply([St EXCEPT !.stack = Rest,
                            !.ctrl = RaiseNew("TypeError",
                                              <<"List index must be an integer.">>)])
              ELSE IF ListPosition(lists[obj.ref], key) = 0
              THEN Apply([St EXCEPT !.stack = Rest,
                            !.ctrl = RaiseNew("IndexError",
                                              <<"list assignment index out of range">>)])
              ELSE Apply([St EXCEPT !.stack = Rest,
                            !.lists[obj.ref][ListPosition(lists[obj.ref], key)] = Top.value,
                            !.ctrl = Ret(None)])

----------------------------------------------------------------------------
(* Interpreter.__init__: the global environment with the built-ins.         *)

Builtins ==
    [n \in {NativeNames[i] : i \in 1..Len(NativeNames)} \cup {"true", "false"} |->
        CASE n = "true" -> BoolV(TRUE)
          [] n = "false" -> BoolV(FALSE)
          [] OTHER -> NativeV(n)]

Init ==
    /\ input \in Inputs
    /\ environment = 1
    /\ envs = <<[values |-> Builtins, enclosing |-> 0]>>
    /\ stack = <<[f |-> "interpret", phase |-> "statements", i |-> 0]>>
    /\ ctrl = Ret(None)
    /\ instances = <<>>
    /\ lists = <<>>
    /\ out = <<>>

Next ==
    \/ interpret
    \/ execute_block
    \/ visit_block
    \/ function_call
    \/ propagate
    \/ recursion_error
    \/ visit_integer
    \/ visit_float
    \/ visit_string
    \/ visit_variable
    \/ visit_funcdecl
    \/ visit_vardecl
    \/ visit_return
    \/ visit_binop
    \/ class_call
    \/ visit_call
    \/ visit_trycatch
    \/ visit_forloop
    \/ execute_simple_step
    \/ execute_modified_step
    \/ visit_pipe
    \/ visit_classdecl
    \/ visit_propertyaccess
    \/ visit_super
    \/ visit_instancevar
    \/ visit_instancevardecl
    \/ visit_methodcall
    \/ visit_arrayliteral
    \/ visit_arrayaccess
    \/ visit_assignment

Spec == Init /\ [][Next]_vars

(* Every state that is not final has a step: no program of the model runs   *)
(* into a case the model leaves out.                                        *)
Modelled == ctrl.mode \in {"done", "crash"} \/ ENABLED Next

----------------------------------------------------------------------------
(* Properties.                                                              *)

(* What print has written: one line per call, one text per argument.        *)
Line1(x) == <<x>>
Line2(x, y) == <<x, y>>
Word(w) == <<w>>

(* C1: a Return executed inside the try block of a TryCatch in a function   *)
(* (directly, in a nested block or in a for loop) is not caught: the catch  *)
(* block never runs and the call yields the returned value, so the program  *)
(* prints a and nothing else.                                               *)
(* Violated: ReturnValue is an Exception and visit_trycatch catches          *)
(* "except Exception".                                                      *)
ReturnNotCaughtByTry ==
    input.tmpl = "try_return" =>
        /\ \A i \in 1..Len(out) : out[i][1] # Word("caught")
        /\ ctrl.mode = "done" => out = <<Line1(IntStr(input.a))>>

(* C2: super.m() in B's m runs the m found from B's superclass and never    *)
(* B's own m, whatever subclass of B the instance belongs to: B's m is      *)
(* entered once and the program ends normally.                              *)
(* Violated for an instance of a subclass of B: bind takes the superclass   *)
(* of the instance's class.                                                 *)
SuperNeverReenters ==
    input.tmpl = "super" =>
        /\ Cardinality({i \in 1..Len(out) : out[i] = Line1(Word("B.m"))}) <= 1
        /\ ctrl.mode # "crash"
        /\ ctrl.mode = "done" =>
                out = <<Line1(Word("B.m")), Line1(Word("A.m")), Line1(Word("end"))>>

(* The values the conversion T accepts.                                     *)
Converts(type_name, v) ==
    CASE type_name = "int" -> PyInt(v).ok
      [] type_name = "float" -> PyFloat(v).ok
      [] OTHER -> TRUE

(* The value the literal of kind u made from a stands for.                  *)
ValueOf(kind, a) ==
    CASE kind = "int" -> IntV(a)
      [] kind = "float" -> FloatV(a * 10 + 5)
      [] kind = "str" -> StrV(NatStr(a))
      [] kind = "bool" -> BoolV(a % 2 = 1)
      [] kind = "word" -> StrV(<<"x">> \o NatStr(a))

(* C3: for T in int, float, str, bool and every value v that T converts,    *)
(* v ~~> f(_) yields what the direct call f(T(v)) yields: the two parts of  *)
(* the program print the same line.                                         *)
(* Violated for T = bool: no bool is registered in the global environment. *)
CoercionPipeEqualsDirectCall ==
    (/\ input.tmpl = "coerce"
     /\ Converts(input.s, ValueOf(input.u, input.a))
     /\ ctrl.mode = "done")
        => Len(out) = 2 /\ out[1] = out[2]

(* C4: an error of any kind raised by a top-level statement or in the body  *)
(* of main, outside every TryCatch, leaves interpret as an error: interpret *)
(* never completes normally after it.                                       *)
(* Violated for a NameError in main: interpret passes over it.              *)
UncaughtErrorLeavesInterpret ==
    (input.tmpl = "error" /\ input.s # "None") => ctrl.mode # "done"

(* The environment the innermost running step or block has installed; the   *)
(* global environment when none runs.                                       *)
InstalledEnv ==
    LET swaps == {i \in 1..Len(stack) :
                     stack[i].f \in {"execute_block", "execute_simple_step"}}
    IN  IF swaps = {} THEN 1
        ELSE stack[CHOOSE i \in swaps : \A j \in swaps : j <= i].environment

(* C5: the current environment is always the one installed by the innermost *)
(* step or block still running: when a step or a block finishes, normally,  *)
(* by a Return or by an error, the current environment is again the one of  *)
(* before it started, for every nesting of steps, blocks, calls, loops and   *)
(* try/catch.                                                               *)
EnvironmentRestored == environment = InstalledEnv

(* C5 happens: an error raised under two wrappers inside f has unwound every *)
(* block and step and reaches the TryCatch at the top level.                *)
EnvironmentRestoredAfterError ==
    /\ input.tmpl = "nest" /\ input.b = 1
    /\ input.s = "step" /\ input.u = "for"
    /\ ctrl.mode = "raise" /\ ctrl.arg.type = "ZeroDivisionError"
    /\ Len(stack) = 2 /\ Top.f = "visit_trycatch"
    /\ environment = 1 /\ Len(envs) >= 5

(* The environments reached from e through enclosing.                       *)
RECURSIVE Ancestors(_, _)
Ancestors(es, e) == IF e = 0 THEN {} ELSE {e} \cup Ancestors(es, es[e].enclosing)

(* The child environments of the steps that are running.                    *)
StepEnvs ==
    {stack[i].environment : i \in {j \in 1..Len(stack) : stack[j].f = "execute_simple_step"}}

(* The environments of the function calls that are running.                 *)
CallEnvs ==
    {stack[i + 1].environment :
        i \in {j \in 1..(Len(stack) - 1) : stack[j].f = "function_call"}}

(* C6: the placeholder is bound only in the child environment of one step:  *)
(* an environment visible from the current one binds it only while it is    *)
(* the child environment of a running step, the call frame of a function    *)
(* called from a step does not see it, and after the pipe the name is       *)
(* undefined where the pipe was evaluated.                                  *)
PlaceholderStaysLocal ==
    /\ \A e \in Ancestors(envs, environment) :
            "_" \in DOMAIN envs[e].values => e \in StepEnvs
    /\ \A c \in CallEnvs : \A e \in Ancestors(envs, c) : "_" \notin DOMAIN envs[e].values
    /\ input.tmpl = "placeholder" =>
            /\ ctrl.mode # "done"
            /\ ctrl.mode = "crash" =>
                    ctrl.arg = Exception("NameError", <<"Variable '", "_", "' is not defined.">>)

(* C6 happens: a pipe has run its steps and the print of the placeholder    *)
(* after it fails.                                                          *)
PlaceholderGoneAfterPipe ==
    /\ input.tmpl = "placeholder" /\ input.s = "modified" /\ input.u = "nested"
    /\ ctrl.mode = "crash"
    /\ Cardinality({e \in 1..Len(envs) : "_" \in DOMAIN envs[e].values}) >= 4
    /\ Len(out) = 1

RECURSIVE Power2(_)
Power2(n) == IF n = 0 THEN 1 ELSE 2 * Power2(n - 1)

(* C7: x --> f xN yields f applied N times to x, also with f written as the *)
(* bare name of a function: with double(n) = n * 2 the program prints       *)
(* a * 2^N (24 for 3 --> double x3).                                        *)
(* Violated for the bare name: a step is evaluated, its value never called. *)
RepetitionAppliesStepNTimes ==
    (input.tmpl = "repeat" /\ ctrl.mode = "done")
        => out = <<Line1(IntStr(input.a * Power2(input.c)))>>

(* What the program of a condition and a repetition must print: the         *)
(* condition once on the input, then the N runs of the step when it holds,  *)
(* then the result.                                                         *)
ExpectedCondition(in) ==
    LET runs == in.u = "repetition_only" \/ in.a < in.b
        asked == IF in.u = "repetition_only" THEN <<>>
                 ELSE <<Line2(Word("ok"), IntStr(in.a))>>
        steps == IF runs THEN [k \in 1..in.c |-> Line2(Word("inc"), IntStr(in.a + k - 1))]
                 ELSE <<>>
    IN  asked \o steps \o <<Line1(IntStr(IF runs THEN in.a + in.c ELSE in.a))>>

(* C8: with one condition and one repetition N in either order, the         *)
(* condition is evaluated once, on the input x and before the step runs; a  *)
(* falsy condition gives x and no run of the step, a truthy one the result  *)
(* of the xN form without the condition.                                    *)
ConditionOnceThenRepetition ==
    input.tmpl = "condition" =>
        /\ ctrl.mode # "crash"
        /\ Len(out) <= Len(ExpectedCondition(input))
        /\ out = SubSeq(ExpectedCondition(input), 1, Len(out))
        /\ ctrl.mode = "done" => out = ExpectedCondition(input)

(* C8 happens: the condition held and the step ran N >= 2 times, the        *)
(* condition written before the repetition.                                 *)
ConditionThenRepetitionRan ==
    /\ input.tmpl = "condition" /\ input.u = "condition_first"
    /\ input.a < input.b /\ input.c >= 2
    /\ ctrl.mode = "done" /\ Len(out) = input.c + 2

(* C8 happens: the condition was falsy, the repetition written first.       *)
ConditionFalsySkipsStep ==
    /\ input.tmpl = "condition" /\ input.u = "repetition_first"
    /\ input.a >= input.b /\ input.c >= 2
    /\ ctrl.mode = "done" /\ Len(out) = 2

(* C9: with only A defining m, c.m() on an instance c of a subclass runs    *)
(* A's m with this bound to c itself: while m runs this is c, the value m   *)
(* returns is c and not the other instance, and the field m sets is set on  *)
(* c.                                                                       *)
InheritedMethodBindsThis ==
    input.tmpl = "inherit" =>
        /\ ctrl.mode # "crash"
        /\ \A i \in 1..(Len(stack) - 1) :
               (stack[i].f = "function_call" /\ stack[i].name = "m") =>
                   get(envs, stack[i + 1].environment, "this") = Ok(GGLangInstance(2))
        /\ ctrl.mode = "done" =>
               out = <<<< Word("True"), Word("False"),
                          IntStr(IF input.u = "initialize" THEN input.a + 1 ELSE input.a) >>>>

(* C9 happens: the instance is of class C and the call has returned.        *)
InheritedMethodRan ==
    /\ input.tmpl = "inherit" /\ input.s = "C"
    /\ ctrl.mode = "done" /\ Len(out) = 1
    /\ "seen" \in DOMAIN instances[2].fields
    /\ "seen" \notin DOMAIN instances[1].fields

(* C10: a for loop over a list visits the items the list held when the loop *)
(* started, whatever the body appends, pops, removes or assigns.            *)
LoopVisitsSnapshot ==
    input.tmpl = "snapshot" =>
        /\ ctrl.mode # "crash"
        /\ Len(out) <= input.b + 1
        /\ \A i \in 1..Len(out) :
               i <= input.b => out[i] = Line1(IntStr(input.a + i - 1))
        /\ ctrl.mode = "done" => Len(out) = input.b + 1

(* C10 happens: the loop over two or more items has ended and its body      *)
(* removed every item on the way.                                           *)
LoopEndedOnChangedList ==
    /\ input.tmpl = "snapshot" /\ input.s = "remove" /\ input.b >= 2
    /\ ctrl.mode = "done" /\ lists[1] = <<>>

(* What the program of the main template must print.                       *)
ExpectedMain(in) ==
    (IF in.a = 0 THEN <<>> ELSE [i \in 1..in.a |-> Line1(IntStr(i))])
    \o (IF in.s = "function" THEN <<Line1(Word("main"))>> ELSE <<>>)

(* C11: interpret runs every top-level statement once, in order, and ends   *)
(* without error when no main is bound; a main bound to a function is       *)
(* called once, without arguments, after the last statement; a main bound   *)
(* to another value is not called.                                          *)
MainRunsOnceAfterStatements ==
    input.tmpl = "main" =>
        /\ ctrl.mode # "crash"
        /\ Len(out) <= Len(ExpectedMain(input))
        /\ out = SubSeq(ExpectedMain(input), 1, Len(out))
        /\ ctrl.mode = "done" => out = ExpectedMain(input)
        /\ Cardinality({i \in 1..Len(stack) : stack[i].f = "function_call"}) <= 1
        /\ (\E i \in 1..Len(stack) : stack[i].f = "function_call") =>
                /\ input.s = "function"
                /\ stack[1].i = Len(ProgramOf(input).statements)
                /\ Len(out) >= input.a

(* C11 happens: main was a function and has run after two statements or     *)
(* more.                                                                    *)
MainHasRun ==
    /\ input.tmpl = "main" /\ input.s = "function" /\ input.a >= 2
    /\ ctrl.mode = "done" /\ out[Len(out)] = Line1(Word("main"))

(* C11 happens: the program binds no main and has ended.                    *)
NoMainHasEnded ==
    /\ input.tmpl = "main" /\ input.s = "none" /\ input.a >= 2
    /\ ctrl.mode = "done" /\ Len(out) = input.a

(* C12: reading a name that holds the Uninitialized sentinel raises the    *)
(* NameError of an unassigned name and never yields the sentinel as a       *)
(* value, for a variable read through Variable and for an instance field    *)
(* read through InstanceVar or PropertyAccess.                              *)
(* Violated for the instance field: GGLangInstance.get returns what the     *)
(* field table holds; and a declaration whose type is a Type node raises    *)
(* TypeError before the field exists.                                       *)
UninitializedReadRaises ==
    /\ ~(ctrl.mode = "ret" /\ ctrl.arg = UNINITIALIZED)
    /\ input.tmpl = "uninitialized" =>
            /\ out = <<>>
            /\ ctrl.mode # "done"
            /\ ctrl.mode = "crash" => ctrl.arg.type = "NameError"

(* C13: a call of a user function that gives a parameter of declared type  *)
(* int, float, str or bool an argument of another kind raises the          *)
(* TypeError of a mismatch and does not execute the body; a Boolean given   *)
(* to an int parameter is such a mismatch.                                  *)
(* Violated for exactly that case: isinstance(True, int) holds in Python.   *)
MismatchedArgumentRejected ==
    (input.tmpl = "typed" /\ input.u # input.s) =>
        /\ \A i \in 1..Len(out) : out[i] # Line1(Word("body"))
        /\ ctrl.mode = "done" => Len(out) = 1 /\ out[1][1] = Word("error")

(* A step that assigns to a variable: the value has come back to           *)
(* visit_assignment and the target is a Variable.                           *)
AssignsVariable ==
    /\ Resuming("visit_assignment")
    /\ Top.phase = "value"
    /\ Top.node.target.kind = "Variable"

(* The frames of the current chain that bind the target of the assignment.  *)
Binders ==
    {e \in Ancestors(envs, environment) : Top.node.target.name \in DOMAIN envs[e].values}

(* C14: an assignment to a variable overwrites the binding of the name in   *)
(* the nearest frame of the chain that binds it and changes no other        *)
(* binding of any frame; when no frame of the chain binds the name it       *)
(* raises the NameError of an undefined variable and every frame is as it   *)
(* was.                                                                     *)
AssignOverwritesNearestBinding ==
    [][AssignsVariable =>
        IF Binders = {}
        THEN /\ envs' = envs
             /\ ctrl'.mode = "raise"
             /\ ctrl'.arg.type = "NameError"
        ELSE \E h \in Binders :
                /\ Binders \subseteq Ancestors(envs, h)
                /\ Len(envs') = Len(envs)
                /\ \A e \in 1..Len(envs) :
                      /\ envs'[e].enclosing = envs[e].enclosing
                      /\ DOMAIN envs'[e].values = DOMAIN envs[e].values
                      /\ \A n \in DOMAIN envs[e].values :
                            envs'[e].values[n] =
                                IF e = h /\ n = Top.node.target.name
                                THEN ctrl.arg
                                ELSE envs[e].values[n]
                /\ ctrl'.mode = "ret"]_vars

(* The assign program has overwritten the parameter x of f, which shadows   *)
(* the global x, in the loop body, and the global x is as it was.           *)
ParameterAssignedGlobalKept ==
    /\ input.tmpl = "assign" /\ input.s = "x" /\ input.b = 1 /\ input.a = 1
    /\ ctrl.mode = "done"
    /\ out = << <<IntStr(7), IntStr(5), IntStr(3)>>,
                <<IntStr(7), IntStr(2), IntStr(3)>>,
                <<IntStr(1), IntStr(2), IntStr(3)>> >>

(* The assign program has failed on the name no frame binds.                *)
UnboundAssignmentFailed ==
    /\ input.tmpl = "assign" /\ input.s = "nope"
    /\ ctrl.mode = "done"
    /\ out = << <<Word("error"), <<"Cannot assign to undefined variable '", "nope", "'.">> >>,
                <<IntStr(1), IntStr(2), IntStr(3)>> >>

(* What the construct program prints.                                      *)
ExpectedConstruct(in) ==
    LET same == <<Word("False"), Word("False"), Word("False")>>
        init == <<Word("init"), IntStr(in.a)>>
    IN  IF in.s = "P"
        THEN <<same, <<Word("error"), <<"Undefined property '", "n", "'.">> >> >>
        ELSE <<init, init, same, Line1(IntStr(in.a))>>

(* C15: calling a class creates a fresh instance with an empty field       *)
(* table, invokes the initialize method of the class or of an ancestor     *)
(* once, bound to the new instance, with the arguments of the call, and     *)
(* yields the new instance whatever the initializer returns.  The two       *)
(* constructions of the program give two instances, each initialized once;  *)
(* the results are neither equal to each other nor to what the initializer  *)
(* returned, and the field is the one the initializer set on its instance.  *)
ClassCallYieldsFreshInstance ==
    input.tmpl = "construct" =>
        /\ ctrl.mode # "crash"
        /\ Len(out) <= Len(ExpectedConstruct(input))
        /\ out = SubSeq(ExpectedConstruct(input), 1, Len(out))
        /\ ctrl.mode = "done" => out = ExpectedConstruct(input)
        /\ Len(instances) <= 2
        /\ ctrl.mode = "done" => Len(instances) = 2
        /\ Cardinality({i \in 1..Len(stack) : stack[i].f = "class_call"}) <= 1
        /\ \A i \in 1..Len(stack) :
              stack[i].f = "class_call" =>
                  /\ stack[i].instance = GGLangInstance(Len(instances))
                  /\ i < Len(stack) => stack[i + 1].f = "function_call"
                  /\ i + 2 <= Len(stack) =>
                        get(envs, envs[stack[i + 2].environment].enclosing, "this")
                            = Ok(stack[i].instance)
        /\ \A r \in 1..Len(instances) :
              DOMAIN instances[r].fields \subseteq {"n"}

(* An initializer inherited from the superclass has returned 99 and the    *)
(* program has ended with the instances.                                    *)
InitializerReturnIgnored ==
    /\ input.tmpl = "construct" /\ input.s = "B" /\ input.u = "other"
    /\ ctrl.mode = "done"
    /\ out = ExpectedConstruct(input)

(* The line the second try/catch of the catch program prints: e is not     *)
(* bound outside the catch block.                                           *)
UnboundLine == <<Word("unbound"), <<"Variable '", "e", "' is not defined.">> >>

(* What the catch program prints when nothing is raised.                    *)
ExpectedNoError ==
    <<Line1(Word("before")), Line1(Word("fine")), Line1(Word("skipped")), UnboundLine>>

(* The outputs of the catch program: the statement after the error is       *)
(* skipped, the catch block prints once, and e is unbound afterwards.       *)
CatchOutput ==
    input.tmpl = "catch" =>
        /\ ctrl.mode # "crash"
        /\ IF input.s = "None"
           THEN /\ Len(out) <= 4
                /\ out = SubSeq(ExpectedNoError, 1, Len(out))
                /\ ctrl.mode = "done" => out = ExpectedNoError
           ELSE /\ Len(out) <= 3
                /\ Len(out) >= 1 => out[1] = Line1(Word("before"))
                /\ Len(out) >= 2 => Len(out[2]) = 2 /\ out[2][1] = Word("caught")
                /\ (Len(out) >= 2 /\ input.s = "AssertionFailed") => out[2][2] = Word("nope")
                /\ Len(out) >= 3 => out[3] = UnboundLine
                /\ ctrl.mode = "done" => Len(out) = 3

(* An error reaches a try/catch: the catch block starts in a new child of   *)
(* the current environment that binds exception_var, and nothing else, to   *)
(* the message of the error.                                                *)
CatchBindsMessage ==
    (Unwinding("visit_trycatch") /\ ctrl.arg.type # "ReturnValue") =>
        /\ Len(envs') = Len(envs) + 1
        /\ SubSeq(envs', 1, Len(envs)) = envs
        /\ environment' = Len(envs')
        /\ envs'[environment'] =
              [values |-> Put(EmptyMap, Top.node.exception_var, StrV(ctrl.arg.msg)),
               enclosing |-> environment]
        /\ ctrl'.mode = "ret"
        /\ Len(stack') > 1
        /\ stack'[Len(stack') - 1].f = "execute_block"
        /\ stack'[Len(stack')].statements = Top.node.catch_block.statements

(* C16: when a statement of a try block raises an error, from the           *)
(* evaluator, a user function or a native built-in, the rest of the try     *)
(* block is skipped and the catch block runs once in a child environment    *)
(* that binds exception_var to the message of the error; exception_var is   *)
(* not bound in the enclosing environment afterwards; without an error the  *)
(* catch block does not run.                                                *)
CatchRunsOnceWithMessage == []CatchOutput /\ [][CatchBindsMessage]_vars

(* A failed assert in a function called from the try block has been caught. *)
AssertionCaught ==
    /\ input.tmpl = "catch" /\ input.s = "AssertionFailed" /\ input.u = "function"
    /\ ctrl.mode = "done"
    /\ out = <<Line1(Word("before")), <<Word("caught"), Word("nope")>>, UnboundLine>>

(* What the return program prints.                                         *)
ExpectedReturn(in) ==
    LET i(n) == <<Word("i"), IntStr(n)>>
        inner == CASE in.u = "absent" -> <<i(1), i(2), Line1(Word("inner end"))>>
                   [] in.u \in {"body", "block"} -> <<i(0)>>
                   [] OTHER -> <<i(1)>>
        got == <<Word("got"), IF in.u = "absent" THEN Word("None") ELSE IntStr(7)>>
        call == inner \o <<got>>
    IN  (IF in.s = "for"
         THEN call \o <<Line1(IntStr(1))>>
         ELSE call \o call \o <<Line1(Word("outer end")), Line1(Word("None"))>>)
        \o <<Line1(Word("end"))>>

(* C17: a Return in the body of a user function, at any depth of nested     *)
(* blocks and for loops, ends the nearest running invocation and only it:   *)
(* no later statement or iteration of that invocation runs, the call        *)
(* yields the value, and the caller goes on after the call; a body that     *)
(* ends without Return yields None.                                         *)
ReturnEndsNearestInvocation ==
    input.tmpl = "return" =>
        /\ ctrl.mode # "crash"
        /\ Len(out) <= Len(ExpectedReturn(input))
        /\ out = SubSeq(ExpectedReturn(input), 1, Len(out))
        /\ ctrl.mode = "done" => out = ExpectedReturn(input)

(* inner has returned from a block in two loops, twice, to the loop of      *)
(* outer, which went on and ended without a return.                         *)
ReturnedFromNestedLoops ==
    /\ input.tmpl = "return" /\ input.u = "for_for_block" /\ input.s = "absent"
    /\ ctrl.mode = "done"
    /\ Len(out) = 7
    /\ out[4] = <<Word("got"), IntStr(7)>>

(* The classes from klass up to the root.                                  *)
RECURSIVE ClassChain(_)
ClassChain(klass) ==
    IF klass = None THEN {} ELSE {klass} \cup ClassChain(klass.superclass)

(* fn was declared in its closure: visit_funcdecl bound it there.           *)
DeclaredInClosure(fn) ==
    /\ fn.declaration.name \in DOMAIN envs[fn.closure].values
    /\ envs[fn.closure].values[fn.declaration.name] = fn

(* fn is a method bound to an instance: its closure is the binding frame,   *)
(* which holds this, and the parent of that frame is the environment where  *)
(* the method's class was declared.                                         *)
BoundInClosure(fn) ==
    /\ "this" \in DOMAIN envs[fn.closure].values
    /\ \E klass \in ClassChain(instances[envs[fn.closure].values["this"].ref].klass) :
          /\ fn.declaration.name \in DOMAIN klass.methods
          /\ klass.methods[fn.declaration.name]
                = GGLangFunction(fn.declaration, envs[fn.closure].enclosing)

(* What the scope program prints.                                           *)
ExpectedScope(in) ==
    LET back == <<Word("back"), IntStr(in.a), Word("only")>>
    IN  CASE in.s = "show" -> <<Line1(Word("global")), back>>
          [] in.s = "peek" ->
                << <<Word("error"), <<"Variable '", "y", "' is not defined.">> >> >>
          [] in.s = "closure" -> <<Line1(Word("made")), back>>
          [] in.s = "method" -> <<Line1(Word("global")), back>>

(* C18: the parent of the frame of every running call is the environment    *)
(* where the function was declared, or for a bound method the binding       *)
(* frame whose parent is that environment, whatever the caller's            *)
(* environment is; a name bound only in the caller's frame is undefined in  *)
(* the callee; the parent of every environment was created before it, so    *)
(* every chain is acyclic and ends at the global environment.               *)
CallFrameParentIsClosure ==
    /\ envs[1].enclosing = 0
    /\ \A e \in 2..Len(envs) : envs[e].enclosing \in 1..(e - 1)
    /\ \A i \in 1..(Len(stack) - 1) :
          (stack[i].f = "function_call" /\ stack[i + 1].f = "execute_block") =>
              /\ envs[stack[i + 1].environment].enclosing = stack[i].self.closure
              /\ DeclaredInClosure(stack[i].self) \/ BoundInClosure(stack[i].self)
    /\ input.tmpl = "scope" =>
          /\ ctrl.mode # "crash"
          /\ Len(out) <= Len(ExpectedScope(input))
          /\ out = SubSeq(ExpectedScope(input), 1, Len(out))
          /\ ctrl.mode = "done" => out = ExpectedScope(input)

(* A call from a frame that shadows x has run in the scope of the callee's  *)
(* declaration: the closure from make has printed the x of make.            *)
ClosureSawDeclarationScope ==
    /\ input.tmpl = "scope" /\ input.s = "closure"
    /\ ctrl.mode = "done"
    /\ out = ExpectedScope(input)

(* The callee has failed on the name bound only in the caller's frame.      *)
CallerLocalUnresolved ==
    /\ input.tmpl = "scope" /\ input.s = "peek"
    /\ ctrl.mode = "done"
    /\ out = ExpectedScope(input)

(* C19: a ~~> pipe whose right side is not a call with a placeholder        *)
(* among its arguments (a call without placeholder, a method call, a        *)
(* modified expression, a typed target) coerces nothing and runs the right  *)
(* side as a step with the input as it is, with the result and the effects  *)
(* of the --> pipe: the two parts of the pipes program print the same.      *)
(* Violated for every right side that is not a Call node: visit_pipe        *)
(* raises TypeError for it.                                                 *)
CoercionPipeWithoutPlaceholderIsPlainPipe ==
    (input.tmpl = "pipes" /\ ctrl.mode = "done") =>
        \E n \in 1..3 :
            /\ Len(out) = 2 * n
            /\ SubSeq(out, 1, n) = SubSeq(out, n + 1, 2 * n)

(* C20: a MethodCall on the property name of obj has the result, the       *)
(* error and the effects of a Call of the value of that property, for a     *)
(* bound method, a user function, a class or a native function held by a    *)
(* field, and for a value that cannot be called: the two parts of the       *)
(* field_call program print the same.                                       *)
(* Violated for a class held by a field and for a value that cannot be      *)
(* called.                                                                  *)
MethodCallIsCallOfProperty ==
    (input.tmpl = "field_call" /\ ctrl.mode = "done") =>
        \E n \in 1..3 :
            /\ Len(out) = 2 * n
            /\ SubSeq(out, 1, n) = SubSeq(out, n + 1, 2 * n)

====
